---- MODULE Spec2Model ----
(***************************************************************************)
(* A model of yahf's routing core: the path trie (handle_selector.rs), the *)
(* middleware factory (middleware.rs), the runner dispatch (handler.rs)    *)
(* and the router merge (router.rs).                                       *)
(*                                                                         *)
(* Strings are tuples of one-character strings, so that splitting a path   *)
(* and recognising a "{...}" segment are computed, not assumed.            *)
(* Option<T> is a tuple: <<>> is None, <<x>> is Some(x).                    *)
(***************************************************************************)
EXTENDS Integers, Sequences, FiniteSets, TLC

VARIABLES
    root,       \* HandlerSelect.root of the trie under test
    panicked,   \* TRUE once an insert has panicked ("already defined")
    routes,     \* history: the (path, handler) pairs whose insert completed
    looked,     \* Option: the path of the last get
    found,      \* the Option<handler> the last get returned
    factory,    \* the MiddlewareFactory being composed: its pre and after closures
    built,      \* Option: the runner MiddlewareFactory::build returned
    request,    \* Option: the last request handed to a runner
    response,   \* Option: the InternalResult<Response> it returned
    log,        \* history: the user functions that request invoked, in order
    parent,     \* the Router that router() is called on
    child,      \* Option: the Router handed to router(), None once it is consumed
    registry,   \* history: the routes registered, with the steps their router had then
    merged,     \* history: Option, the steps the parent had when router() was called
    server,     \* the Server the routes are added to and the connections are served by
    listener,   \* accept_loop: "building" before listen, then "accepting" or "stopped"
    tasks       \* the tasks handle_stream spawned, in the order of their accept

trieVars == <<root, panicked, routes, looked, found>>
mwVars == <<factory, built, request, response, log>>
routerVars == <<parent, child, registry, merged>>
serverVars == <<server, listener, tasks>>

vars == <<root, panicked, routes, looked, found, factory, built, request, response, log,
          parent, child, registry, merged, server, listener, tasks>>

-----------------------------------------------------------------------------
(* Bounds *)

MaxRoutes == 2      \* inserts into the trie under test
MaxSteps == 3       \* middleware steps appended to one factory
MaxChain == 1       \* pre-steps, and after-steps, appended to one Router

-----------------------------------------------------------------------------
(* Option *)

None == <<>>
Some(x) == <<x>>
is_some(o) == o # <<>>
is_none(o) == o = <<>>
unwrap(o) == o[1]

-----------------------------------------------------------------------------
(* Paths: path.split('/').filter(|x| !x.is_empty()) *)

RECURSIVE SplitFrom(_, _, _)
SplitFrom(path, cur, acc) ==
    IF path = <<>> THEN Append(acc, cur)
    ELSE IF Head(path) = "/" THEN SplitFrom(Tail(path), <<>>, Append(acc, cur))
    ELSE SplitFrom(Tail(path), Append(cur, Head(path)), acc)

\* str::split('/'): every piece between separators, the empty ones included
split(path) == SplitFrom(path, <<>>, <<>>)

NonEmpty(x) == x # <<>>

\* mutant: the empty segments are kept
segments_unfiltered(path) == split(path)

\* the iterator both insert and get walk
segments(path) == SelectSeq(split(path), NonEmpty)

\* mutant: the closing brace is tested with the opening one
is_parameter_declaration_typo(value) ==
    /\ Len(value) > 0
    /\ value[1] = "{"
    /\ value[Len(value)] = "{"

is_parameter_declaration(value) ==
    /\ Len(value) > 0
    /\ value[1] = "{"
    /\ value[Len(value)] = "}"

-----------------------------------------------------------------------------
(* Node *)

DefaultNode == [childrens |-> None, wildcard_node |-> None, value |-> None]

\* mutant: every parameter segment gets a wildcard child of its own
add_wildcard_node_replacing(node) == [node EXCEPT !.wildcard_node = Some(DefaultNode)]

\* Node::add_wildcard_node: the node with its wildcard child in place
add_wildcard_node(node) ==
    IF is_some(node.wildcard_node) THEN node
    ELSE [node EXCEPT !.wildcard_node = Some(DefaultNode)]

\* mutant: HashMap::insert, which replaces the child already there
or_insert_replacing(map, key) ==
    [k \in DOMAIN map \cup {key} |-> IF k = key THEN DefaultNode ELSE map[k]]

\* HashMap::entry(path).or_insert(Node::default())
or_insert(map, key) ==
    IF key \in DOMAIN map THEN map
    ELSE [k \in DOMAIN map \cup {key} |-> IF k = key THEN DefaultNode ELSE map[k]]

EmptyMap == [k \in {} |-> DefaultNode]

\* mutant: the node is made anew when it gets its first literal child
add_normal_node_anew(node, path) ==
    IF is_none(node.childrens)
    THEN [DefaultNode EXCEPT !.childrens = Some(or_insert(EmptyMap, path))]
    ELSE [node EXCEPT !.childrens = Some(or_insert(unwrap(node.childrens), path))]

\* Node::add_normal_node: the node with the literal child in place
add_normal_node(node, path) ==
    LET childrens == IF is_none(node.childrens) THEN EmptyMap
                     ELSE unwrap(node.childrens)
    IN  [node EXCEPT !.childrens = Some(or_insert(childrens, path))]

\* mutant: the occupied check is missing
store_overwriting(node, handler) ==
    [node |-> [node EXCEPT !.value = Some(handler)], panic |-> FALSE]

\* the tail of HandlerSelect::insert: panic when the node holds a value
store(node, handler) ==
    IF is_some(node.value) THEN [node |-> node, panic |-> TRUE]
    ELSE [node |-> [node EXCEPT !.value = Some(handler)], panic |-> FALSE]

RECURSIVE insert_from(_, _, _)
insert_from(node, segs, handler) ==
    IF segs = <<>> THEN store(node, handler)
    ELSE IF is_parameter_declaration(Head(segs)) THEN
        LET n == add_wildcard_node(node)
            r == insert_from(unwrap(n.wildcard_node), Tail(segs), handler)
        IN  [node |-> [n EXCEPT !.wildcard_node = Some(r.node)], panic |-> r.panic]
    ELSE
        LET n == add_normal_node(node, Head(segs))
            m == unwrap(n.childrens)
            r == insert_from(m[Head(segs)], Tail(segs), handler)
        IN  [node |-> [n EXCEPT !.childrens = Some([m EXCEPT ![Head(segs)] = r.node])],
             panic |-> r.panic]

\* HandlerSelect::insert: [node |-> the root afterwards, panic |-> it panicked]
insert(r, path, handler) == insert_from(r, segments(path), handler)

\* mutant: the wildcard child is tried before the literal one
RECURSIVE get_wildcard_first(_, _)
get_wildcard_first(node, segs) ==
    IF segs = <<>> THEN node.value
    ELSE IF is_some(node.wildcard_node)
         THEN get_wildcard_first(unwrap(node.wildcard_node), Tail(segs))
    ELSE IF is_some(node.childrens) /\ Head(segs) \in DOMAIN unwrap(node.childrens)
         THEN get_wildcard_first(unwrap(node.childrens)[Head(segs)], Tail(segs))
    ELSE None

\* mutant: where the walk cannot go on, the value of the node reached is returned
RECURSIVE get_from_deepest(_, _)
get_from_deepest(node, segs) ==
    IF segs = <<>> THEN node.value
    ELSE IF is_some(node.childrens) /\ Head(segs) \in DOMAIN unwrap(node.childrens)
         THEN get_from_deepest(unwrap(node.childrens)[Head(segs)], Tail(segs))
    ELSE IF is_some(node.wildcard_node)
         THEN get_from_deepest(unwrap(node.wildcard_node), Tail(segs))
    ELSE node.value

\* mutant: when the literal child leads nowhere, the wildcard sibling is tried
RECURSIVE get_from_backtracking(_, _)
get_from_backtracking(node, segs) ==
    IF segs = <<>> THEN node.value
    ELSE LET viaLiteral ==
                 IF is_some(node.childrens) /\ Head(segs) \in DOMAIN unwrap(node.childrens)
                 THEN get_from_backtracking(unwrap(node.childrens)[Head(segs)], Tail(segs))
                 ELSE None
         IN  IF is_some(viaLiteral) THEN viaLiteral
             ELSE IF is_some(node.wildcard_node)
                  THEN get_from_backtracking(unwrap(node.wildcard_node), Tail(segs))
             ELSE None

RECURSIVE get_from(_, _)
get_from(node, segs) ==
    IF segs = <<>> THEN node.value
    ELSE LET s == Head(segs) IN
        CASE is_none(node.childrens) /\ is_none(node.wildcard_node) -> None
          [] is_none(node.childrens) /\ is_some(node.wildcard_node) ->
                get_from(unwrap(node.wildcard_node), Tail(segs))
          [] is_some(node.childrens) /\ is_none(node.wildcard_node) ->
                IF s \in DOMAIN unwrap(node.childrens)
                THEN get_from(unwrap(node.childrens)[s], Tail(segs))
                ELSE None
          [] is_some(node.childrens) /\ is_some(node.wildcard_node) ->
                IF s \in DOMAIN unwrap(node.childrens)
                THEN get_from(unwrap(node.childrens)[s], Tail(segs))
                ELSE get_from(unwrap(node.wildcard_node), Tail(segs))

\* HandlerSelect::get
get(r, path) == get_from(r, segments(path))

-----------------------------------------------------------------------------
(* Requests, responses, errors *)

Ok(x) == [ok |-> TRUE, val |-> x]
Err(e) == [ok |-> FALSE, err |-> e]

\* a body is the sequence of marks left by whoever wrote to it
ClientMark == [by |-> "client"]
HandlerMark == [by |-> "handler"]
StepMark(id) == [by |-> "step", id |-> id]
StatusMark == [by |-> "http", text |-> "invalid status code"]

Error_new(body, code) == [body |-> body, code |-> code]
Request_new(body) == [body |-> body]
Response_new(body) == [status |-> 200, body |-> body]

\* mutant: an error whose status the builder accepts is rendered as a 500 too
error_into_response_always_500(err) == [status |-> 500, body |-> <<StatusMark>>]

\* From<Error> for Response<String>: the builder refuses a status outside
\* 100..999 and the fallback is a 500 carrying the builder's message
error_into_response(err) ==
    IF 100 <= err.code /\ err.code <= 999
    THEN [status |-> err.code, body |-> err.body]
    ELSE [status |-> 500, body |-> <<StatusMark>>]

-----------------------------------------------------------------------------
(* User functions: middleware steps and handlers, by what they do *)

\* what a step appended with pre / after may do with the value it is given
PlainDoes == {"transform", "generate_error"}
\* what a step appended with pre_error / after_error may do with the result
FallibleDoes == {"transform", "generate_error", "handle_error"}

Fresh(stage, body) == IF stage = "pre" THEN Request_new(body) ELSE Response_new(body)

\* the step's own code, given the (fallible) value and returning a fallible one
call_step(stage, step, res) ==
    CASE step.does = "transform" ->
            IF res.ok THEN Ok([res.val EXCEPT !.body = Append(@, StepMark(step.id))])
            ELSE res
      [] step.does = "generate_error" ->
            Err(Error_new(<<StepMark(step.id)>>, 500))
      [] step.does = "handle_error" ->
            IF res.ok THEN res ELSE Ok(Fresh(stage, <<StepMark(step.id)>>))

Entry(stage, how, id, got, gave) ==
    [stage |-> stage, how |-> how, id |-> id, got |-> got, gave |-> gave]

\* other.call(value).await.into(), noted in the log
invoke(stage, m, res, lg) ==
    LET out == call_step(stage, m.step, res)
    IN  [res |-> out, log |-> Append(lg, Entry(stage, m.how, m.step.id, res, out))]

Front(s) == SubSeq(s, 1, Len(s) - 1)
Last(s) == s[Len(s)]

-----------------------------------------------------------------------------
(* MiddlewareFactory.  A composed closure is the sequence of the steps it   *)
(* wraps: calling it calls the closure it captured (all but the last step)  *)
(* and then the step it was made for (the last).                            *)

\* MiddlewareFactory::new: unit_pre_middleware and unit_after_middleware
new == [pre |-> <<>>, after |-> <<>>]

pre(self, other_pre) ==
    [self EXCEPT !.pre = Append(@, [how |-> "pre", step |-> other_pre])]

pre_error(self, other_pre) ==
    [self EXCEPT !.pre = Append(@, [how |-> "pre_error", step |-> other_pre])]

after(self, other_after) ==
    [self EXCEPT !.after = Append(@, [how |-> "after", step |-> other_after])]

after_error(self, other_after) ==
    [self EXCEPT !.after = Append(@, [how |-> "after_error", step |-> other_after])]

\* mutant: the new step runs first, the captured closure after it
RECURSIVE call_pre_new_first(_, _, _)
call_pre_new_first(closure, req, lg) ==
    IF closure = <<>> THEN [res |-> Ok(req), log |-> lg]
    ELSE LET m == Last(closure)
             resp == invoke("pre", m, Ok(req), lg)
         IN  IF resp.res.ok THEN call_pre_new_first(Front(closure), resp.res.val, resp.log)
             ELSE resp

\* mutant: pre hands the error of the captured closure on to the new step
RECURSIVE call_pre_unchecked(_, _, _)
call_pre_unchecked(closure, req, lg) ==
    IF closure = <<>> THEN [res |-> Ok(req), log |-> lg]
    ELSE LET m == Last(closure)
             resp == call_pre_unchecked(Front(closure), req, lg)
         IN  invoke("pre", m, resp.res, resp.log)

\* mutant: an error of the captured closure outlives the pre_error step
RECURSIVE call_pre_error_kept(_, _, _)
call_pre_error_kept(closure, req, lg) ==
    IF closure = <<>> THEN [res |-> Ok(req), log |-> lg]
    ELSE LET m == Last(closure)
             resp == call_pre_error_kept(Front(closure), req, lg)
         IN  IF resp.res.ok THEN invoke("pre", m, resp.res, resp.log)
             ELSE IF m.how = "pre" THEN resp
             ELSE [res |-> resp.res, log |-> invoke("pre", m, resp.res, resp.log).log]

\* the closures pre and pre_error return
RECURSIVE call_pre(_, _, _)
call_pre(closure, req, lg) ==
    IF closure = <<>> THEN [res |-> Ok(req), log |-> lg]
    ELSE LET m == Last(closure)
             resp == call_pre(Front(closure), req, lg)
         IN  IF m.how = "pre"
             THEN IF resp.res.ok THEN invoke("pre", m, resp.res, resp.log) ELSE resp
             ELSE invoke("pre", m, resp.res, resp.log)

\* mutant: the new after-step runs first, the captured closure after it
RECURSIVE call_after_new_first(_, _, _)
call_after_new_first(closure, res, lg) ==
    IF closure = <<>> THEN [res |-> Ok(res), log |-> lg]
    ELSE LET m == Last(closure)
             resp == invoke("after", m, Ok(res), lg)
         IN  IF resp.res.ok THEN call_after_new_first(Front(closure), resp.res.val, resp.log)
             ELSE resp

\* mutant: after hands the error of the captured closure on to the new step
RECURSIVE call_after_unchecked(_, _, _)
call_after_unchecked(closure, res, lg) ==
    IF closure = <<>> THEN [res |-> Ok(res), log |-> lg]
    ELSE LET m == Last(closure)
             resp == call_after_unchecked(Front(closure), res, lg)
         IN  invoke("after", m, resp.res, resp.log)

\* the closures after and after_error return
RECURSIVE call_after(_, _, _)
call_after(closure, res, lg) ==
    IF closure = <<>> THEN [res |-> Ok(res), log |-> lg]
    ELSE LET m == Last(closure)
             resp == call_after(Front(closure), res, lg)
         IN  IF m.how = "after"
             THEN IF resp.res.ok THEN invoke("after", m, resp.res, resp.log) ELSE resp
             ELSE invoke("after", m, resp.res, resp.log)

\* MiddlewareFactory::build
build(self, runner) ==
    [op |-> "build", pre |-> self.pre, after |-> self.after, runner |-> runner]

\* handler::encapsulate_runner
encapsulate_runner(runner) == [op |-> "encapsulate_runner", runner |-> runner]

\* a user function bound with the String deserializer and serializer
fn(name, does) == [op |-> "fn", name |-> name, does |-> does]
FnDoes == {"respond", "fail"}

\* the user function itself, given the deserialized request
call_fn(runner, req, lg) ==
    LET out == IF runner.does = "respond"
               THEN Ok(Response_new(Append(req.body, HandlerMark)))
               ELSE Err(Error_new(<<HandlerMark>>, 400))
    IN  [res |-> out, log |-> Append(lg, Entry("handler", "fn", runner.name, Ok(req), out))]

\* InternalResult<Response> to Response: map_ok_or_else(|e| e.into(), |ok| ok)
\* in build, and the match of handler::call_runner
render(r) == IF r.ok THEN r.val ELSE error_into_response(r.err)

RECURSIVE call_runner(_, _, _)
RECURSIVE call_build(_, _, _)
RECURSIVE call_handler(_, _, _)

\* the closure build returns: pre, the runner, after, each behind a `?`
call_build(b, req, lg) ==
    LET req_updated == call_pre(b.pre, req, lg) IN
    IF ~req_updated.res.ok
    THEN [resp |-> render(req_updated.res), log |-> req_updated.log]
    ELSE LET runner_resp == call_runner(b.runner, req_updated.res.val, req_updated.log) IN
         IF ~runner_resp.res.ok
         THEN [resp |-> render(runner_resp.res), log |-> runner_resp.log]
         ELSE LET runner_resp_updated ==
                      call_after(b.after, runner_resp.res.val, runner_resp.log)
              IN  [resp |-> render(runner_resp_updated.res),
                   log |-> runner_resp_updated.log]

\* the closure encapsulate_runner returns: handler::call_runner
call_handler(h, req, lg) ==
    LET r == call_runner(h.runner, req, lg)
    IN  [resp |-> render(r.res), log |-> r.log]

\* Runner::call_runner: a user function, or a closure from Request<String> to
\* Response<String> whose String (de)serialization cannot fail
call_runner(runner, req, lg) ==
    CASE runner.op = "fn" -> call_fn(runner, req, lg)
      [] runner.op = "build" ->
            LET r == call_build(runner, req, lg) IN [res |-> Ok(r.resp), log |-> r.log]
      [] runner.op = "encapsulate_runner" ->
            LET r == call_handler(runner, req, lg) IN [res |-> Ok(r.resp), log |-> r.log]

-----------------------------------------------------------------------------
(* HandlerSelect::apply and HandlerSelect::extend *)

\* Node::apply_middlewares
apply_middlewares(node, middleware_factory) ==
    IF is_some(node.value)
    THEN [node EXCEPT
            !.value = Some(encapsulate_runner(build(middleware_factory, unwrap(node.value))))]
    ELSE node

\* mutant: the walk goes through the childrens and leaves the wildcard_node out
RECURSIVE rec_apply_childrens_only(_, _)
rec_apply_childrens_only(actual_node, middleware_factory) ==
    LET n == apply_middlewares(actual_node, middleware_factory)
    IN  IF is_none(n.childrens) THEN n
        ELSE [n EXCEPT !.childrens =
                Some([k \in DOMAIN unwrap(@) |->
                        rec_apply_childrens_only(unwrap(@)[k], middleware_factory)])]

RECURSIVE rec_apply(_, _)
rec_apply(actual_node, middleware_factory) ==
    LET n == apply_middlewares(actual_node, middleware_factory)
        over(childrens) == [k \in DOMAIN childrens |-> rec_apply(childrens[k], middleware_factory)]
    IN  CASE is_none(n.childrens) /\ is_none(n.wildcard_node) -> n
          [] is_none(n.childrens) /\ is_some(n.wildcard_node) ->
                [n EXCEPT !.wildcard_node = Some(rec_apply(unwrap(@), middleware_factory))]
          [] is_some(n.childrens) /\ is_none(n.wildcard_node) ->
                [n EXCEPT !.childrens = Some(over(unwrap(@)))]
          [] is_some(n.childrens) /\ is_some(n.wildcard_node) ->
                [n EXCEPT !.wildcard_node = Some(rec_apply(unwrap(@), middleware_factory)),
                          !.childrens = Some(over(unwrap(@)))]

\* HandlerSelect::apply
apply(self, middleware_factory) == rec_apply(self, middleware_factory)

SlashWildcard ==
    <<"/", "{", "w", "i", "l", "d", "c", "a", "r", "d", "_", "n", "o", "d", "e", "}">>
BareWildcard == Tail(SlashWildcard)

\* format!("{}/{}", path, next_path_segment)
Joined(path, next_path_segment) == path \o <<"/">> \o next_path_segment

RECURSIVE rec_extend(_, _, _)
RECURSIVE for_each_child(_, _, _, _)

\* childrens.into_iter().for_each(..): the HashMap yields its entries in an
\* order of its own; a panic ends the walk
for_each_child(self, childrens, keys, path) ==
    IF keys = {} THEN [node |-> self, panic |-> FALSE]
    ELSE LET next_path_segment == CHOOSE k \in keys : TRUE
             r == rec_extend(self, childrens[next_path_segment],
                             Joined(path, next_path_segment))
         IN  IF r.panic THEN r
             ELSE for_each_child(r.node, childrens, keys \ {next_path_segment}, path)

\* HandlerSelect::rec_extend: [node |-> self.root afterwards, panic |-> it panicked]
rec_extend(self, node, path) ==
    IF is_some(node.value) THEN insert(self, path, unwrap(node.value))
    ELSE CASE is_none(node.childrens) /\ is_none(node.wildcard_node) ->
                [node |-> self, panic |-> FALSE]
           [] is_none(node.childrens) /\ is_some(node.wildcard_node) ->
                rec_extend(self, unwrap(node.wildcard_node), path \o SlashWildcard)
           [] is_some(node.childrens) /\ is_none(node.wildcard_node) ->
                for_each_child(self, unwrap(node.childrens),
                               DOMAIN unwrap(node.childrens), path)
           [] is_some(node.childrens) /\ is_some(node.wildcard_node) ->
                LET r == for_each_child(self, unwrap(node.childrens),
                                        DOMAIN unwrap(node.childrens), path)
                IN  IF r.panic THEN r
                    ELSE rec_extend(r.node, unwrap(node.wildcard_node), path \o BareWildcard)

\* HandlerSelect::extend
extend(self, another_handler) == rec_extend(self, another_handler, <<>>)

-----------------------------------------------------------------------------
(* Router *)

Methods == {"GET", "PUT", "DELETE", "POST", "TRACE", "OPTIONS", "CONNECT", "PATCH", "HEAD"}

\* Router::new
Router_new == [middleware_factory |-> new, tree |-> [m \in Methods |-> DefaultNode]]

\* Router::pre and Router::after
Router_pre(self, middleware) ==
    [self EXCEPT !.middleware_factory = pre(@, middleware)]

Router_after(self, middleware) ==
    [self EXCEPT !.middleware_factory = after(@, middleware)]

\* Router::method: [router |-> self afterwards, panic |-> the insert panicked]
Router_method(self, method, path, handler) ==
    LET r == insert(self.tree[method], path, encapsulate_runner(handler))
    IN  [router |-> [self EXCEPT !.tree[method] = r.node], panic |-> r.panic]

\* mutant: the handler is wrapped with a factory that has no step
method_insert_bare(self, method, path, handler) ==
    Router_method(self, method, path, build(new, handler))

\* Router::get, put, ... (method_insert!)
method_insert(self, method, path, handler) ==
    LET built_with_middleware == build(self.middleware_factory, handler)
    IN  Router_method(self, method, path, built_with_middleware)

\* the registrations of Router::all, in the order written
RouterAllOrder == <<"GET", "PUT", "DELETE", "POST", "TRACE", "OPTIONS", "CONNECT", "PATCH", "HEAD">>

RECURSIVE method_insert_each(_, _, _, _)
method_insert_each(self, i, path, handler) ==
    IF i > Len(RouterAllOrder) THEN [router |-> self, panic |-> FALSE]
    ELSE LET r == method_insert(self, RouterAllOrder[i], path, handler)
         IN  IF r.panic THEN r ELSE method_insert_each(r.router, i + 1, path, handler)

\* Router::all
Router_all(self, path, handler) == method_insert_each(self, 1, path, handler)

\* the nine self.X.extend(X) of Router::router, in the order written
ExtendOrder == <<"GET", "PUT", "DELETE", "POST", "TRACE", "OPTIONS", "CONNECT", "PATCH", "HEAD">>

RECURSIVE extend_trees(_, _, _)
extend_trees(self, applied, i) ==
    IF i > Len(ExtendOrder) THEN [router |-> self, panic |-> FALSE]
    ELSE LET m == ExtendOrder[i]
             r == extend(self.tree[m], applied[m])
         IN  IF r.panic THEN [router |-> [self EXCEPT !.tree[m] = r.node], panic |-> TRUE]
             ELSE extend_trees([self EXCEPT !.tree[m] = r.node], applied, i + 1)

\* mutant: the other router's trees are merged without self's middleware
router_without_apply(self, other) == extend_trees(self, other.tree, 1)

\* mutant: self's middleware is applied to self's own trees as well
router_applying_to_self(self, other) ==
    LET own == [self EXCEPT
                  !.tree = [m \in Methods |-> apply(self.tree[m], self.middleware_factory)]]
        applied == [m \in Methods |-> apply(other.tree[m], self.middleware_factory)]
    IN  extend_trees(own, applied, 1)

\* Router::router
router(self, other) ==
    LET applied == [m \in Methods |-> apply(other.tree[m], self.middleware_factory)]
    IN  extend_trees(self, applied, 1)

\* Router::find_route
find_route(self, method, path) ==
    IF method \in Methods THEN get(self.tree[method], path) ELSE None

-----------------------------------------------------------------------------
(* Server (server.rs): nine tries, the entry points, all, find_handler *)

\* Server::new
Server_new == [tree |-> [m \in Methods |-> DefaultNode]]

\* no listener is bound and no task is spawned before Server::listen
ListenIdle == listener = "building" /\ tasks = <<>>

ServerIdle == server = Server_new /\ ListenIdle

\* Server::add_handler: [server |-> self afterwards, panic |-> the insert panicked];
\* a method that is none of the nine is ignored
Server_add_handler(self, method, path, handler) ==
    IF method \in DOMAIN self.tree
    THEN LET r == insert(self.tree[method], path, encapsulate_runner(handler))
         IN  [server |-> [self EXCEPT !.tree[method] = r.node], panic |-> r.panic]
    ELSE [server |-> self, panic |-> FALSE]

\* Server::get, post, put, delete, trace, options, connect, patch, head
EntryMethod ==
    [get |-> "GET", post |-> "POST", put |-> "PUT", delete |-> "DELETE", trace |-> "TRACE",
     options |-> "OPTIONS", connect |-> "CONNECT", patch |-> "PATCH", head |-> "HEAD"]

Server_entry(self, entry, path, handler) ==
    Server_add_handler(self, EntryMethod[entry], path, handler)

\* the inserts of Server::all, in the order written
AllOrder == <<"GET", "POST", "PUT", "DELETE", "TRACE", "OPTIONS", "PATCH", "HEAD", "CONNECT">>
AllGuard == {"GET", "POST", "PUT", "DELETE"}

RECURSIVE insert_each(_, _, _, _, _)
insert_each(self, order, i, path, handler) ==
    IF i > Len(order) THEN [server |-> self, panic |-> FALSE]
    ELSE LET r == insert(self.tree[order[i]], path, encapsulate_runner(handler))
             next == [self EXCEPT !.tree[order[i]] = r.node]
         IN  IF r.panic THEN [server |-> next, panic |-> TRUE]
             ELSE insert_each(next, order, i + 1, path, handler)

\* Server::all: nothing is inserted unless get, post, put and delete all miss
Server_all(self, path, handler) ==
    IF \A m \in AllGuard : is_none(get(self.tree[m], path))
    THEN insert_each(self, AllOrder, 1, path, handler)
    ELSE [server |-> self, panic |-> FALSE]

\* Server::find_handler
find_handler(self, method, path) ==
    IF method \in DOMAIN self.tree THEN get(self.tree[method], path) ELSE None

RouterIdle ==
    /\ parent = Router_new
    /\ child = Some(Router_new)
    /\ registry = {}
    /\ merged = None

-----------------------------------------------------------------------------
(* One factory, composed, built and called *)

MwIdle ==
    /\ factory = new
    /\ built = None
    /\ request = None
    /\ response = None
    /\ log = <<>>

StepCount == Len(factory.pre) + Len(factory.after)
NextStep(does) == [id |-> StepCount + 1, does |-> does]

Compose(f) ==
    /\ is_none(built)
    /\ StepCount < MaxSteps
    /\ factory' = f
    /\ UNCHANGED <<built, request, response, log>>
    /\ UNCHANGED trieVars
    /\ UNCHANGED routerVars
    /\ UNCHANGED serverVars

MwPre(does) == Compose(pre(factory, NextStep(does)))
MwPreError(does) == Compose(pre_error(factory, NextStep(does)))
MwAfter(does) == Compose(after(factory, NextStep(does)))
MwAfterError(does) == Compose(after_error(factory, NextStep(does)))

\* Arc::new(middleware).build(handler, ..)
MwBuild(does) ==
    /\ is_none(built)
    /\ built' = Some(build(factory, fn(0, does)))
    /\ UNCHANGED <<factory, request, response, log>>
    /\ UNCHANGED trieVars
    /\ UNCHANGED routerVars
    /\ UNCHANGED serverVars

Bodies == {<<ClientMark>>}

\* updated_handler.call_runner(Request::new(body)).await
MwCall(body) ==
    /\ is_some(built)
    /\ is_none(request)
    /\ LET r == call_runner(unwrap(built), Request_new(body), <<>>) IN
        /\ request' = Some(Request_new(body))
        /\ response' = Some(r.res)
        /\ log' = r.log
    /\ UNCHANGED <<factory, built>>
    /\ UNCHANGED trieVars
    /\ UNCHANGED routerVars
    /\ UNCHANGED serverVars

TrieIdle ==
    /\ root = DefaultNode
    /\ panicked = FALSE
    /\ routes = {}
    /\ looked = None
    /\ found = None

MwInit == MwIdle /\ TrieIdle /\ RouterIdle /\ ServerIdle

MwNext ==
    \/ \E d \in PlainDoes : MwPre(d)
    \/ \E d \in FallibleDoes : MwPreError(d)
    \/ \E d \in PlainDoes : MwAfter(d)
    \/ \E d \in FallibleDoes : MwAfterError(d)
    \/ \E d \in FnDoes : MwBuild(d)
    \/ \E b \in Bodies : MwCall(b)

SpecMw == MwInit /\ [][MwNext]_vars

-----------------------------------------------------------------------------
(* The paths the trie is driven with *)

A == <<"a">>
B == <<"b">>
X == <<"{", "x", "}">>
Y == <<"{", "y", "}">>

RECURSIVE Canon(_)
Canon(segs) == IF segs = <<>> THEN <<>> ELSE <<"/">> \o Head(segs) \o Canon(Tail(segs))

RouteSegs ==
    { <<>>, <<A>>, <<B>>, <<X>>, <<Y>>,
      <<A, A>>, <<A, B>>, <<A, X>>, <<A, Y>>, <<B, A>>,
      <<X, A>>, <<X, B>>, <<X, Y>> }

\* the same route written with a missing leading, a doubled and a trailing '/'
Variants ==
    { <<"/">>, <<"a", "/", "b">>, <<"/", "a", "/", "/", "b">>, <<"/", "a", "/", "b", "/">> }

RoutePaths == { Canon(s) : s \in RouteSegs } \cup Variants

LookupSegs ==
    { <<>>, <<A>>, <<B>>, <<X>>,
      <<A, A>>, <<A, B>>, <<B, A>>, <<B, B>>, <<A, X>>, <<X, A>>,
      <<A, A, A>>, <<A, B, A>>, <<B, A, B>>, <<A, B, B>> }

LookupPaths == { Canon(s) : s \in LookupSegs } \cup Variants

\* the handler registered for a path: each registration passes its own closure
HandlerAt(path) == [route |-> path]

-----------------------------------------------------------------------------
(* The trie under test *)

TrieInit ==
    /\ root = DefaultNode
    /\ panicked = FALSE
    /\ routes = {}
    /\ looked = None
    /\ found = None
    /\ MwIdle
    /\ RouterIdle
    /\ ServerIdle

\* HandlerSelect::insert(&mut self): no reference a get returned is still alive
Insert(path, handler) ==
    /\ ~panicked
    /\ Cardinality(routes) < MaxRoutes
    /\ LET r == insert(root, path, handler) IN
        /\ root' = r.node
        /\ panicked' = r.panic
        /\ routes' = IF r.panic THEN routes
                     ELSE routes \cup {[path |-> path, handler |-> handler]}
    /\ looked' = None
    /\ found' = None
    /\ UNCHANGED mwVars
    /\ UNCHANGED routerVars
    /\ UNCHANGED serverVars

\* the nodes a walk with entry().or_insert() would leave behind
RECURSIVE touch(_, _)
touch(node, segs) ==
    IF segs = <<>> THEN node
    ELSE LET n == add_normal_node(node, Head(segs))
             m == unwrap(n.childrens)
         IN  [n EXCEPT !.childrens = Some([m EXCEPT ![Head(segs)] = touch(m[Head(segs)], Tail(segs))])]

\* mutant: the lookup creates the nodes it walks through
LookupCreating(path) ==
    /\ ~panicked
    /\ looked' = Some(path)
    /\ found' = get(root, path)
    /\ root' = touch(root, segments(path))
    /\ UNCHANGED <<panicked, routes>>
    /\ UNCHANGED mwVars
    /\ UNCHANGED routerVars
    /\ UNCHANGED serverVars

\* HandlerSelect::get takes &self
Lookup(path) ==
    /\ ~panicked
    /\ looked' = Some(path)
    /\ found' = get(root, path)
    /\ UNCHANGED <<root, panicked, routes>>
    /\ UNCHANGED mwVars
    /\ UNCHANGED routerVars
    /\ UNCHANGED serverVars

TrieNext ==
    \/ \E p \in RoutePaths : Insert(p, HandlerAt(p))
    \/ \E p \in LookupPaths : Lookup(p)

SpecTrie == TrieInit /\ [][TrieNext]_vars

-----------------------------------------------------------------------------
(* The trie under test, driven with parameter segments of different names *)

ParamRoutes ==
    { Canon(s) : s \in {<<X>>, <<Y>>, <<A, X>>, <<A, Y>>, <<A, X, A>>, <<A, Y, B>>} }
ParamLookups ==
    { Canon(s) : s \in {<<A>>, <<B>>, <<A, A>>, <<A, B>>, <<A, A, A>>, <<A, B, A>>,
                        <<A, A, B>>, <<A, B, B>>, <<B, A, A>>} }

ParamNext ==
    \/ \E p \in ParamRoutes : Insert(p, HandlerAt(p))
    \/ \E p \in ParamLookups : Lookup(p)

SpecParam == TrieInit /\ [][ParamNext]_vars

-----------------------------------------------------------------------------
(* A trie whose handlers are wrapped by a factory: HandlerSelect::apply *)

MaxApplies == 1     \* wrappers apply puts around one handler

ApplyPaths ==
    {<<>>, Canon(<<A>>), Canon(<<A, B>>), Canon(<<X>>), Canon(<<A, X>>), Canon(<<X, B>>)}

\* how many times apply has wrapped a handler
RECURSIVE Wrappers(_)
Wrappers(handler) ==
    IF "op" \in DOMAIN handler THEN 1 + Wrappers(handler.runner.runner) ELSE 0

\* self.get = self.get.apply(middleware_factory.clone())
Apply ==
    /\ ~panicked
    /\ \A r \in routes : Wrappers(unwrap(get(root, r.path))) < MaxApplies
    /\ root' = apply(root, factory)
    /\ looked' = None
    /\ found' = None
    /\ UNCHANGED <<panicked, routes>>
    /\ UNCHANGED mwVars
    /\ UNCHANGED routerVars
    /\ UNCHANGED serverVars

ApplyNext ==
    \/ \E p \in ApplyPaths : Insert(p, HandlerAt(p))
    \/ MwPre("transform")
    \/ MwAfter("transform")
    \/ Apply

SpecApply == TrieInit /\ [][ApplyNext]_vars

-----------------------------------------------------------------------------
(* Two routers: the child is composed first, then the parent; the parent may *)
(* take the child in with router() and may be asked for a route at any time. *)

Owners == {"parent", "child"}
RouterOf(w) == IF w = "parent" THEN parent ELSE unwrap(child)

\* the child is still being composed: the parent has not been touched
Open(w) ==
    /\ ~panicked
    /\ w = "child" => (is_some(child) /\ parent = Router_new)

Captured(w) ==
    [pre |-> Len(RouterOf(w).middleware_factory.pre),
     after |-> Len(RouterOf(w).middleware_factory.after)]

Put(w, r) ==
    /\ parent' = IF w = "parent" THEN r ELSE parent
    /\ child' = IF w = "child" THEN Some(r) ELSE child

Forget ==
    /\ request' = None
    /\ response' = None
    /\ log' = <<>>

StepId(w, stage, k) == [owner |-> w, stage |-> stage, k |-> k]
FnName(w, method, path) == [owner |-> w, method |-> method, path |-> path]

\* router.pre(middleware)
RouterPre(w, does) ==
    /\ Open(w)
    /\ Captured(w).pre < MaxChain
    /\ Put(w, Router_pre(RouterOf(w), [id |-> StepId(w, "pre", Captured(w).pre + 1),
                                       does |-> does]))
    /\ Forget
    /\ UNCHANGED <<registry, merged, panicked>>
    /\ UNCHANGED <<root, routes, looked, found, factory, built>>
    /\ UNCHANGED serverVars

\* router.after(middleware)
RouterAfter(w, does) ==
    /\ Open(w)
    /\ Captured(w).after < MaxChain
    /\ Put(w, Router_after(RouterOf(w), [id |-> StepId(w, "after", Captured(w).after + 1),
                                         does |-> does]))
    /\ Forget
    /\ UNCHANGED <<registry, merged, panicked>>
    /\ UNCHANGED <<root, routes, looked, found, factory, built>>
    /\ UNCHANGED serverVars

\* router.get(path, handler, ..) and its eight siblings
RouterRoute(w, method, path, does) ==
    /\ Open(w)
    /\ LET r == method_insert(RouterOf(w), method, path, fn(FnName(w, method, path), does)) IN
        /\ Put(w, r.router)
        /\ panicked' = r.panic
        /\ registry' = IF r.panic THEN registry
                       ELSE registry \cup {[owner |-> w, method |-> method, path |-> path,
                                            steps |-> Captured(w), merged |-> is_some(merged)]}
    /\ Forget
    /\ UNCHANGED merged
    /\ UNCHANGED <<root, routes, looked, found, factory, built>>
    /\ UNCHANGED serverVars

\* router.all(path, handler, ..)
RouterAll(w, path, does) ==
    /\ Open(w)
    /\ LET r == Router_all(RouterOf(w), path, fn(FnName(w, "all", path), does)) IN
        /\ Put(w, r.router)
        /\ panicked' = r.panic
        /\ registry' = IF r.panic THEN registry
                       ELSE registry \cup {[owner |-> w, method |-> "all", path |-> path,
                                            steps |-> Captured(w), merged |-> is_some(merged)]}
    /\ Forget
    /\ UNCHANGED merged
    /\ UNCHANGED <<root, routes, looked, found, factory, built>>
    /\ UNCHANGED serverVars

\* parent.router(child)
RouterMerge ==
    /\ ~panicked
    /\ is_some(child)
    /\ LET r == router(parent, unwrap(child)) IN
        /\ parent' = r.router
        /\ panicked' = r.panic
    /\ child' = None
    /\ merged' = Some(Captured("parent"))
    /\ Forget
    /\ UNCHANGED registry
    /\ UNCHANGED <<root, routes, looked, found, factory, built>>
    /\ UNCHANGED serverVars

\* find_route on the parent and, when it finds a handler, a call of it
RouterRequest(method, path, body) ==
    /\ ~panicked
    /\ LET h == find_route(parent, method, path)
           r == call_handler(unwrap(h), Request_new(body), <<>>)
       IN  /\ request' = Some([method |-> method, path |-> path, body |-> body])
           /\ response' = IF is_some(h) THEN Some(r.resp) ELSE None
           /\ log' = IF is_some(h) THEN r.log ELSE <<>>
    /\ UNCHANGED <<parent, child, registry, merged, panicked>>
    /\ UNCHANGED <<root, routes, looked, found, factory, built>>
    /\ UNCHANGED serverVars

RouterSteps == {"transform"}
RouterFns == {"respond"}
RouterMethods == {"GET"}
RouterPaths == [parent |-> {Canon(<<A>>), Canon(<<B>>)}, child |-> {Canon(<<B>>)}]

RouterInit == RouterIdle /\ MwIdle /\ TrieIdle /\ ServerIdle

RouterNext ==
    \/ \E w \in Owners, d \in RouterSteps : RouterPre(w, d)
    \/ \E w \in Owners, d \in RouterSteps : RouterAfter(w, d)
    \/ \E w \in Owners, m \in RouterMethods, d \in RouterFns :
        \E p \in RouterPaths[w] : RouterRoute(w, m, p, d)
    \/ RouterMerge
    \/ \E m \in RouterMethods, p \in RouterPaths["parent"], b \in Bodies :
        RouterRequest(m, p, b)

SpecRouter == RouterInit /\ [][RouterNext]_vars

-----------------------------------------------------------------------------
(* Two routers with nested routes and no middleware steps, merged *)

MergeMethods == {"GET", "POST"}
MergePaths == [parent |-> {Canon(<<A, B>>), Canon(<<B>>)},
               child |-> {Canon(<<A>>), Canon(<<A, B>>), Canon(<<B>>)}]
MergeAllPaths == {Canon(<<B>>)}
MergeLookups == {Canon(<<A>>), Canon(<<A, B>>), Canon(<<B>>)}

MergeNext ==
    \/ \E w \in Owners, m \in MergeMethods :
        \E p \in MergePaths[w] : RouterRoute(w, m, p, "respond")
    \/ \E w \in Owners, p \in MergeAllPaths : RouterAll(w, p, "respond")
    \/ RouterMerge

SpecMerge == RouterInit /\ [][MergeNext]_vars

-----------------------------------------------------------------------------
(* A child router with parameter routes, merged into a parent without routes *)

WildMethods == {"GET", "POST"}
WildPaths == {Canon(<<X>>), Canon(<<B>>), Canon(<<A, X>>), Canon(<<A, B>>)}

WildNext ==
    \/ \E m \in WildMethods, p \in WildPaths : RouterRoute("child", m, p, "respond")
    \/ RouterMerge

SpecWild == RouterInit /\ [][WildNext]_vars

-----------------------------------------------------------------------------
(* Dispatch of one typed runner: RunnerInput, the user computation,          *)
(* RunnerOutput.  Bodies here are strings; the Json codec is the one of an   *)
(* unsigned integer: it reads a non-empty run of digits and writes one.      *)

Digits == <<"0", "1", "2", "3", "4", "5", "6", "7", "8", "9">>
IsDigit(c) == \E d \in 1..10 : Digits[d] = c
DigitValue(c) == (CHOOSE d \in 1..10 : Digits[d] = c) - 1

RECURSIVE NumberOf(_)
NumberOf(content) ==
    IF content = <<>> THEN 0
    ELSE 10 * NumberOf(Front(content)) + DigitValue(Last(content))

\* the message of serde_json's error: what went wrong and at which column
CodecMessage(content) ==
    IF content = <<>> THEN [serde |-> "EOF while parsing a value", column |-> 0]
    ELSE LET k == CHOOSE i \in 1..Len(content) :
                    /\ ~IsDigit(content[i])
                    /\ \A j \in 1..i - 1 : IsDigit(content[j])
         IN  [serde |-> IF k = 1 THEN "expected value" ELSE "trailing characters",
              column |-> k]

\* serde_json::from_str::<T>(content)
from_str(content) ==
    IF content # <<>> /\ \A i \in 1..Len(content) : IsDigit(content[i])
    THEN [ok |-> TRUE, val |-> NumberOf(content)]
    ELSE [ok |-> FALSE, err |-> CodecMessage(content)]

\* serde_json::to_string(&content)
RECURSIVE to_string(_)
to_string(n) ==
    IF n < 10 THEN <<Digits[n + 1]>>
    ELSE to_string(n \div 10) \o <<Digits[(n % 10) + 1]>>

Codecs == {"String", "Json"}

\* mutant: the Json deserializer reports its failure as a 400
deserialize_as_bad_request(Extractor, content) ==
    IF Extractor = "String" THEN Ok(content)
    ELSE LET parsed == from_str(content)
         IN  IF parsed.ok THEN Ok(parsed.val) ELSE Err(Error_new(parsed.err, 400))

\* BodyDeserializer::deserialize for String and for Json<T>
deserialize(Extractor, content) ==
    IF Extractor = "String" THEN Ok(content)
    ELSE LET parsed == from_str(content)
         IN  IF parsed.ok THEN Ok(parsed.val) ELSE Err(Error_new(parsed.err, 422))

\* a value of a type serde_json refuses to write, a map whose keys are not
\* strings, and the message of its error
Unserializable == 0 - 1
KeyMessage == [serde |-> "key must be a string", column |-> 0]

\* BodySerializer::serialize for String and for Json<T>
serialize(Serializer, content) ==
    IF Serializer = "String" THEN Ok(content)
    ELSE IF content = Unserializable THEN Err(Error_new(KeyMessage, 422))
    ELSE Ok(to_string(content))

\* the shapes a user computation may take and return
FnIns == [result : BOOLEAN, of : {"Body", "Request"}]
FnOuts == [result : BOOLEAN, of : {"Body", "Response"}]

\* Request::and_then and Response::and_then: the body is replaced, the head kept
and_then(message, callback_result) ==
    IF callback_result.ok THEN Ok([message EXCEPT !.body = callback_result.val])
    ELSE callback_result

\* RunnerInput::try_into for BodyType and for Request<BodyType>:
\* [res |-> the adapter's result, ran |-> what has run so far]
try_into_plain(FnIn, Extractor, input, ran) ==
    IF ~input.ok THEN [res |-> input, ran |-> ran]
    ELSE LET body == deserialize(Extractor, input.val.body)
         IN  [res |-> IF FnIn.of = "Body" THEN body ELSE and_then(input.val, body),
              ran |-> Append(ran, "deserializer")]

\* mutant: an upstream error is replaced by a deserialization of nothing
RunnerInput_try_into_fresh(FnIn, Extractor, input, ran) ==
    LET seen == IF input.ok THEN input ELSE Ok(Request_new(<<>>))
        plain == try_into_plain(FnIn, Extractor, seen, ran)
    IN  IF FnIn.result THEN [res |-> Ok(plain.res), ran |-> plain.ran] ELSE plain

\* mutant: a Result-aware input is adapted like a plain one, its failure returned
RunnerInput_try_into_early(FnIn, Extractor, input, ran) ==
    try_into_plain(FnIn, Extractor, input, ran)

\* RunnerInput::try_into, Result<RInput> included
RunnerInput_try_into(FnIn, Extractor, input, ran) ==
    LET plain == try_into_plain(FnIn, Extractor, input, ran)
    IN  IF FnIn.result THEN [res |-> Ok(plain.res), ran |-> plain.ran] ELSE plain

\* RunnerOutput::try_into for BodyType and for Response<BodyType>
try_from_plain(FnOut, Serializer, out, ran) ==
    LET body == serialize(Serializer, IF FnOut.of = "Body" THEN out ELSE out.body)
    IN  [res |-> IF FnOut.of = "Body"
                 THEN (IF body.ok THEN Ok(Response_new(body.val)) ELSE body)
                 ELSE and_then(out, body),
         ran |-> Append(ran, "serializer")]

\* mutant: a failure declared by the user computation is serialized
RunnerOutput_try_into_always(FnOut, Serializer, out, ran) ==
    IF FnOut.result
    THEN IF out.ok THEN try_from_plain(FnOut, Serializer, out.val, ran)
         ELSE [res |-> Err(Error_new(out.err.body, 500)), ran |-> Append(ran, "serializer")]
    ELSE try_from_plain(FnOut, Serializer, out, ran)

\* RunnerOutput::try_into, Result<BasicRunnerOutput> included
RunnerOutput_try_into(FnOut, Serializer, out, ran) ==
    IF FnOut.result
    THEN IF out.ok THEN try_from_plain(FnOut, Serializer, out.val, ran)
         ELSE [res |-> out, ran |-> ran]
    ELSE try_from_plain(FnOut, Serializer, out, ran)

\* the status codes and bodies a user computation fails with
Codes == {0, 99, 100, 200, 404, 422, 999, 1000, 65535}
Complaint == <<"n", "o">>

\* what the user computation returns: a value of the serializer's type, bare,
\* in a Response or in a Result; or the failure it declares
Answer(Serializer) == IF Serializer = "Json" THEN 7 ELSE <<"o", "k">>

user(runner, x) ==
    LET value == IF runner.code = 0 - 2 THEN Unserializable ELSE Answer(runner.Serializer)
        shaped == IF runner.FnOut.of = "Body" THEN value ELSE Response_new(value)
    IN  IF ~runner.FnOut.result THEN shaped
        ELSE IF runner.code \in {0 - 1, 0 - 2} THEN Ok(shaped)
        ELSE Err(Error_new(Complaint, runner.code))

\* Runner::call_runner for F: Fn(FnIn) -> Fut<FnOut>
Runner_call_runner(runner, inp) ==
    LET got == RunnerInput_try_into(runner.FnIn, runner.Extractor, inp, <<>>)
    IN  IF got.res.ok
        THEN RunnerOutput_try_into(runner.FnOut, runner.Serializer,
                                   user(runner, got.res.val), Append(got.ran, "user"))
        ELSE got

\* the runners: code -1 is a user computation that does not fail, code -2 one
\* that returns a value its Json serializer cannot write
Runners ==
    {r \in [FnIn : FnIns, Extractor : Codecs, FnOut : FnOuts, Serializer : Codecs,
            code : Codes \cup {0 - 1}] : r.code # 0 - 1 => r.FnOut.result}

\* what reaches dispatch: a request with a body, or the error of an earlier stage
Upstream == {Error_new(Complaint, c) : c \in {400, 1000}}
Inputs ==
    {Ok(Request_new(b)) : b \in {<<>>, <<"4", "2">>, <<"4", "x">>, <<"x">>}}
    \cup {Err(e) : e \in Upstream}

\* a runner is picked
DispatchBuild(runner) ==
    /\ is_none(built)
    /\ built' = Some(runner)
    /\ UNCHANGED <<factory, request, response, log>>
    /\ UNCHANGED trieVars
    /\ UNCHANGED routerVars
    /\ UNCHANGED serverVars

\* it is called, and its result rendered at the boundary
DispatchCall(inp) ==
    /\ is_some(built)
    /\ is_none(request)
    /\ LET r == Runner_call_runner(unwrap(built), inp) IN
        /\ request' = Some(inp)
        /\ response' = Some([result |-> r.res, delivered |-> render(r.res)])
        /\ log' = r.ran
    /\ UNCHANGED <<factory, built>>
    /\ UNCHANGED trieVars
    /\ UNCHANGED routerVars
    /\ UNCHANGED serverVars

DispatchNext ==
    \/ \E runner \in Runners : DispatchBuild(runner)
    \/ \E inp \in Inputs : DispatchCall(inp)

SpecDispatch == MwInit /\ [][DispatchNext]_vars

-----------------------------------------------------------------------------
(* connection_loop: one connection, read as lines *)

RECURSIVE SplitAt(_, _, _, _)
SplitAt(str, sep, cur, acc) ==
    IF str = <<>> THEN Append(acc, cur)
    ELSE IF Head(str) = sep THEN SplitAt(Tail(str), sep, <<>>, Append(acc, cur))
    ELSE SplitAt(Tail(str), sep, Append(cur, Head(str)), acc)

\* str::split(' '), the empty pieces included
split_on(str, sep) == SplitAt(str, sep, <<>>, <<>>)

\* str::split_once(':')
split_once(str, sep) ==
    IF \E i \in 1..Len(str) : str[i] = sep
    THEN LET i == CHOOSE k \in 1..Len(str) :
                    str[k] = sep /\ \A j \in 1..k - 1 : str[j] # sep
         IN  Some(<<SubSeq(str, 1, i - 1), SubSeq(str, i + 1, Len(str))>>)
    ELSE None

RECURSIVE trim_start(_)
trim_start(str) ==
    IF str # <<>> /\ Head(str) = " " THEN trim_start(Tail(str)) ELSE str

RECURSIVE trim_end(_)
trim_end(str) ==
    IF str # <<>> /\ Last(str) = " " THEN trim_end(Front(str)) ELSE str

trim(str) == trim_end(trim_start(str))

MethodToken ==
    [GET |-> <<"G", "E", "T">>, PUT |-> <<"P", "U", "T">>,
     DELETE |-> <<"D", "E", "L", "E", "T", "E">>, POST |-> <<"P", "O", "S", "T">>,
     TRACE |-> <<"T", "R", "A", "C", "E">>,
     OPTIONS |-> <<"O", "P", "T", "I", "O", "N", "S">>,
     CONNECT |-> <<"C", "O", "N", "N", "E", "C", "T">>,
     PATCH |-> <<"P", "A", "T", "C", "H">>, HEAD |-> <<"H", "E", "A", "D">>]

\* Method::try_from: the nine are known by name, any other non-empty token
\* is an extension method
Method_try_from(mtd) ==
    IF mtd = <<>> THEN Err("invalid HTTP method")
    ELSE IF \E m \in Methods : MethodToken[m] = mtd
         THEN Ok(CHOOSE m \in Methods : MethodToken[m] = mtd)
         ELSE Ok("extension")

\* Uri::try_from: an empty target is refused; the rest is path and query
Uri_try_from(target) ==
    IF target = <<>> THEN Err("empty string")
    ELSE LET parts == split_once(target, "?")
         IN  Ok(IF is_some(parts)
                THEN [path |-> unwrap(parts)[1], query |-> Some(unwrap(parts)[2])]
                ELSE [path |-> target, query |-> None])

\* Uri::to_string: the query is written back after the path
Uri_to_string(uri) ==
    IF is_some(uri.query) THEN uri.path \o <<"?">> \o unwrap(uri.query) ELSE uri.path

\* HttpHeaderName::try_from: a name is a non-empty token
HeaderName_try_from(name) ==
    IF name = <<>> \/ \E i \in 1..Len(name) : name[i] \in {" ", ":"}
    THEN Err("invalid HTTP header name") ELSE Ok(name)

BAD_REQUEST == "400 Bad Request"
NOT_FOUND == "404 Not Found"
HTTP_VERSION_NOT_SUPPORTED == "505 HTTP Version Not Supported"
HTTP_1_1 == <<"H", "T", "T", "P", "/", "1", ".", "1">>

\* StatusCode::canonical_reason
canonical_reason(status) ==
    CASE status = 200 -> Some("OK")
      [] status = 400 -> Some("Bad Request")
      [] status = 404 -> Some("Not Found")
      [] status = 422 -> Some("Unprocessable Entity")
      [] status = 500 -> Some("Internal Server Error")
      [] OTHER -> None

\* the header lines: the index of the line that ends them (the empty line, or
\* one past the last line), or 0 when a line before it is not a header
RECURSIVE read_headers(_, _)
read_headers(lines, i) ==
    IF i > Len(lines) \/ lines[i] = <<>> THEN i
    ELSE LET splitted_header == split_once(lines[i], ":")
         IN  IF is_none(splitted_header) THEN 0
             ELSE IF ~HeaderName_try_from(trim(unwrap(splitted_header)[1])).ok THEN 0
             ELSE read_headers(lines, i + 1)

RECURSIVE push_all(_, _)
push_all(lines, i) ==
    IF i > Len(lines) THEN <<>> ELSE lines[i] \o push_all(lines, i + 1)

Failed(text) == [kind |-> "error", text |-> text, ran |-> <<>>]

\* mutant: a miss of find_handler is reported as a bad request
not_found_as_bad_request == Failed(BAD_REQUEST)

\* None => Err(NOT_FOUND)?
not_found == Failed(NOT_FOUND)

\* mutant: the route is looked up before the version is checked
connection_loop_lookup_first(self, lines) ==
    IF lines = <<>> THEN Failed(BAD_REQUEST)
    ELSE
    LET splitted_fl == split_on(lines[1], " ")
        method == Method_try_from(splitted_fl[1])
    IN
    IF ~method.ok \/ method.val \notin Methods THEN Failed(BAD_REQUEST)
    ELSE IF Len(splitted_fl) < 2 THEN Failed(BAD_REQUEST)
    ELSE
    LET uri == Uri_try_from(splitted_fl[2]) IN
    IF ~uri.ok THEN Failed(BAD_REQUEST)
    ELSE
    LET handler == find_handler(self, method.val, Uri_to_string(uri.val)) IN
    IF is_none(handler) THEN not_found
    ELSE IF Len(splitted_fl) < 3 \/ splitted_fl[3] # HTTP_1_1
         THEN Failed(HTTP_VERSION_NOT_SUPPORTED)
    ELSE
    LET end == read_headers(lines, 2) IN
    IF end = 0 THEN Failed(BAD_REQUEST)
    ELSE
    LET body_string == push_all(lines, end + 1)
        r == call_handler(unwrap(handler),
                          Request_new(<<[by |-> "client", text |-> body_string]>>), <<>>)
    IN  IF is_none(canonical_reason(r.resp.status))
        THEN [kind |-> "panic", text |-> "canonical_reason", ran |-> r.log]
        ELSE [kind |-> "written", status |-> r.resp.status,
              reason |-> unwrap(canonical_reason(r.resp.status)),
              body |-> r.resp.body, ran |-> r.log]

\* connection_loop: what the connection ends with, and the user functions run
connection_loop(self, lines) ==
    IF lines = <<>> THEN Failed(BAD_REQUEST)
    ELSE
    LET splitted_fl == split_on(lines[1], " ")
        method == Method_try_from(splitted_fl[1])
    IN
    IF ~method.ok \/ method.val \notin Methods THEN Failed(BAD_REQUEST)
    ELSE IF Len(splitted_fl) < 2 THEN Failed(BAD_REQUEST)
    ELSE
    LET uri == Uri_try_from(splitted_fl[2]) IN
    IF ~uri.ok THEN Failed(BAD_REQUEST)
    ELSE IF Len(splitted_fl) < 3 \/ splitted_fl[3] # HTTP_1_1
         THEN Failed(HTTP_VERSION_NOT_SUPPORTED)
    ELSE
    LET handler == find_handler(self, method.val, Uri_to_string(uri.val)) IN
    IF is_none(handler) THEN not_found
    ELSE
    LET end == read_headers(lines, 2) IN
    IF end = 0 THEN Failed(BAD_REQUEST)
    ELSE
    LET body_string == push_all(lines, end + 1)
        r == call_handler(unwrap(handler),
                          Request_new(<<[by |-> "client", text |-> body_string]>>), <<>>)
    IN  IF is_none(canonical_reason(r.resp.status))
        THEN [kind |-> "panic", text |-> "canonical_reason", ran |-> r.log]
        ELSE [kind |-> "written", status |-> r.resp.status,
              reason |-> unwrap(canonical_reason(r.resp.status)),
              body |-> r.resp.body, ran |-> r.log]

-----------------------------------------------------------------------------
(* A server: routes are added, connections are served *)

MaxRegs == 2        \* registrations made on one server

ServerPaths == {Canon(<<A>>), Canon(<<X>>)}
Entries == DOMAIN EntryMethod

\* the entry points take &mut self; Server::listen takes self
Registering(call) ==
    /\ ~panicked
    /\ listener = "building"
    /\ Cardinality(registry \cup {call}) <= MaxRegs

ServerFrame ==
    /\ UNCHANGED <<root, routes, looked, found, factory, built>>
    /\ UNCHANGED <<parent, child, merged>>
    /\ UNCHANGED <<listener, tasks>>

\* server.get(path, handler, ..) and its eight siblings
ServerRegister(entry, path, does) ==
    /\ Registering([entry |-> entry, path |-> path])
    /\ LET r == Server_entry(server, entry, path,
                             fn([entry |-> entry, path |-> path], does)) IN
        /\ server' = r.server
        /\ panicked' = r.panic
    /\ registry' = registry \cup {[entry |-> entry, path |-> path]}
    /\ Forget
    /\ ServerFrame

\* server.all(path, handler, ..)
ServerAll(path, does) ==
    /\ Registering([entry |-> "all", path |-> path])
    /\ LET r == Server_all(server, path, fn([entry |-> "all", path |-> path], does)) IN
        /\ server' = r.server
        /\ panicked' = r.panic
    /\ registry' = registry \cup {[entry |-> "all", path |-> path]}
    /\ Forget
    /\ ServerFrame

\* one connection is served
ServerConnection(lines) ==
    /\ ~panicked
    /\ is_none(request)
    /\ LET r == connection_loop(server, lines) IN
        /\ request' = Some(lines)
        /\ response' = Some([r EXCEPT !.ran = <<>>])
        /\ log' = r.ran
    /\ UNCHANGED <<server, registry, panicked>>
    /\ ServerFrame

Line(tokens) ==
    IF Len(tokens) = 1 THEN tokens[1]
    ELSE IF Len(tokens) = 2 THEN tokens[1] \o <<" ">> \o tokens[2]
    ELSE tokens[1] \o <<" ">> \o tokens[2] \o <<" ">> \o tokens[3]

\* request lines that name one of the nine methods, a target and HTTP/1.1
PlainFirstLines ==
    {Line(<<m, t, HTTP_1_1>>) : m \in {MethodToken.GET, MethodToken.PUT},
                                 t \in {Canon(<<A>>), Canon(<<B>>)}}
\* and others: a query, an extension method, another version, missing pieces,
\* two spaces in a row, nothing
OddFirstLines ==
    {Line(<<MethodToken.GET, Canon(<<A>>) \o <<"?", "q">>, HTTP_1_1>>),
     Line(<<MethodToken.GET, Canon(<<A, B>>), HTTP_1_1>>),
     Line(<<<<"B", "R", "E", "W">>, Canon(<<A>>), HTTP_1_1>>),
     Line(<<MethodToken.GET, Canon(<<A>>), <<"H", "T", "T", "P", "/", "1", ".", "0">>>>),
     Line(<<MethodToken.GET>>),
     Line(<<MethodToken.GET, Canon(<<A>>)>>),
     Line(<<MethodToken.GET, <<>>, Canon(<<A>>)>>),
     <<>>}
\* what follows the request line: a header, the empty line and a body; or a
\* line that is not a header
Rests == {<< <<"A", "c", "c", "e", "s", "s", ":", "0">>, <<>>, <<"h", "i">> >>,
          << <<":", "W", "r", "o", "n", "g">> >>}
Streams ==
    {<<>>}
    \cup {<<fl>> : fl \in PlainFirstLines \cup OddFirstLines}
    \cup {<<fl>> \o rest : fl \in PlainFirstLines, rest \in Rests}

ServerNext ==
    \/ \E e \in Entries, p \in ServerPaths : ServerRegister(e, p, "respond")
    \/ \E p \in ServerPaths : ServerAll(p, "respond")

SpecServer == RouterInit /\ [][ServerNext]_vars

ConnectionEntries == {"get", "put"}

ConnectionNext ==
    \/ \E e \in ConnectionEntries, p \in ServerPaths : ServerRegister(e, p, "respond")
    \/ \E lines \in Streams : ServerConnection(lines)

SpecConnection == RouterInit /\ [][ConnectionNext]_vars

-----------------------------------------------------------------------------
(* Server::listen: accept_loop spawns one task per accepted stream, and each  *)
(* task runs connection_loop up to its next await                            *)

MaxConns == 2       \* streams the accept loop takes in

\* connection_loop up to `let request = request_builder.body(body_string)`:
\* the error the `?` returns, or the handler found and the request built
read_request(self, lines) ==
    IF lines = <<>> THEN Failed(BAD_REQUEST)
    ELSE
    LET splitted_fl == split_on(lines[1], " ")
        method == Method_try_from(splitted_fl[1])
    IN
    IF ~method.ok \/ method.val \notin Methods THEN Failed(BAD_REQUEST)
    ELSE IF Len(splitted_fl) < 2 THEN Failed(BAD_REQUEST)
    ELSE
    LET uri == Uri_try_from(splitted_fl[2]) IN
    IF ~uri.ok THEN Failed(BAD_REQUEST)
    ELSE IF Len(splitted_fl) < 3 \/ splitted_fl[3] # HTTP_1_1
         THEN Failed(HTTP_VERSION_NOT_SUPPORTED)
    ELSE
    LET handler == find_handler(self, method.val, Uri_to_string(uri.val)) IN
    IF is_none(handler) THEN not_found
    ELSE
    LET end == read_headers(lines, 2) IN
    IF end = 0 THEN Failed(BAD_REQUEST)
    ELSE [kind |-> "request", handler |-> unwrap(handler),
          request |-> Request_new(<<[by |-> "client", text |-> push_all(lines, end + 1)]>>)]

\* connection_loop from format!("HTTP/1.1 {} {}\r\n{}\r\n{}", ..) on
write_response(r) ==
    IF is_none(canonical_reason(r.resp.status))
    THEN [kind |-> "panic", text |-> "canonical_reason", ran |-> r.log]
    ELSE [kind |-> "written", status |-> r.resp.status,
          reason |-> unwrap(canonical_reason(r.resp.status)),
          body |-> r.resp.body, ran |-> r.log]

\* task::spawn(async move { .. }): the future owns the stream it was given
spawn(lines) == [pc |-> "spawned", lines |-> lines, held |-> None, out |-> None]

\* mutant: every task works on the stream accepted last
moved_last(ts, id) == ts[Len(ts)]

\* what the task's future captured by `async move`, and its own locals
moved(ts, id) == ts[id]

\* mutant: the accept loop awaits the JoinHandle before the next accept
handle_stream_joined(ts) == \A i \in 1..Len(ts) : ts[i].pc \in {"answered", "failed"}

\* handle_stream returns the JoinHandle at once, and accept_loop drops it
handle_stream_returned(ts) == TRUE

ListenFrame ==
    /\ UNCHANGED <<root, routes, looked, found, factory, built>>
    /\ UNCHANGED <<parent, child, merged>>
    /\ UNCHANGED <<request, response, log>>
    /\ UNCHANGED <<server, registry, panicked>>

\* server.listen(addr): the server moves into an Arc, the listener is bound
Listen ==
    /\ ~panicked
    /\ listener = "building"
    /\ listener' = "accepting"
    /\ UNCHANGED tasks
    /\ ListenFrame

\* incoming.next().await gave a stream: handle_stream(server.clone(), stream)
Accept(lines) ==
    /\ listener = "accepting"
    /\ Len(tasks) < MaxConns
    /\ handle_stream_returned(tasks)
    /\ tasks' = Append(tasks, spawn(lines))
    /\ UNCHANGED listener
    /\ ListenFrame

\* `stream?` or `stream.peer_addr()?` returned the error: accept_loop is over
AcceptFails ==
    /\ listener = "accepting"
    /\ handle_stream_returned(tasks)
    /\ listener' = "stopped"
    /\ UNCHANGED tasks
    /\ ListenFrame

Running(id, pc) == id \in 1..Len(tasks) /\ tasks[id].pc = pc

\* the task reads its stream to the end and looks its handler up
TaskRead(id) ==
    /\ Running(id, "spawned")
    /\ LET r == read_request(server, moved(tasks, id).lines) IN
        tasks' = [tasks EXCEPT ![id] =
                    IF r.kind = "request"
                    THEN [@ EXCEPT !.pc = "awaiting", !.held = Some(r)]
                    ELSE [@ EXCEPT !.pc = "failed", !.out = Some(r)]]
    /\ UNCHANGED listener
    /\ ListenFrame

\* handler(request).await is ready: the user computation has completed
TaskHandlerReady(id) ==
    /\ Running(id, "awaiting")
    /\ LET mine == unwrap(moved(tasks, id).held)
           r == call_handler(mine.handler, mine.request, <<>>)
       IN  tasks' = [tasks EXCEPT ![id] = [@ EXCEPT !.pc = "responded", !.held = Some(r)]]
    /\ UNCHANGED listener
    /\ ListenFrame

\* stream.write_all(response_string.as_bytes()).await and flush
TaskWrite(id) ==
    /\ Running(id, "responded")
    /\ tasks' = [tasks EXCEPT ![id] =
                    [@ EXCEPT !.pc = "answered",
                              !.held = None,
                              !.out = Some(write_response(unwrap(moved(tasks, id).held)))]]
    /\ UNCHANGED listener
    /\ ListenFrame

ListenEntries == {"get"}
ListenStreams ==
    {<<>>,
     <<Line(<<MethodToken.GET, Canon(<<A>>), HTTP_1_1>>), <<>>, <<"h", "i">> >>,
     <<Line(<<MethodToken.GET, Canon(<<B>>), HTTP_1_1>>)>>}

ListenNext ==
    \/ \E e \in ListenEntries, p \in ServerPaths : ServerRegister(e, p, "respond")
    \/ Listen
    \/ \E lines \in ListenStreams : Accept(lines)
    \/ AcceptFails
    \/ \E id \in 1..MaxConns : TaskRead(id)
    \/ \E id \in 1..MaxConns : TaskHandlerReady(id)
    \/ \E id \in 1..MaxConns : TaskWrite(id)

SpecListen == RouterInit /\ [][ListenNext]_vars

\* the executor polls the accept loop while a stream is waiting, and a task
\* whose handler is ready; when a user computation completes is up to it
SpecListenFair ==
    /\ SpecListen
    /\ WF_vars(\E lines \in ListenStreams : Accept(lines))
    /\ \A id \in 1..MaxConns : WF_vars(TaskWrite(id))

-----------------------------------------------------------------------------
(* Server (lib.rs): four tries, four entry points, all, find_handler *)

LibMethods == {"GET", "PUT", "DELETE", "POST"}

\* Server::new
Lib_Server_new == [tree |-> [m \in LibMethods |-> DefaultNode]]

\* Server::get, post, put, delete: the Method each hands to add_handler
LibEntryMethod == [get |-> "GET", post |-> "POST", put |-> "PUT", delete |-> "GET"]

Lib_Server_entry(self, entry, path, handler) ==
    Server_add_handler(self, LibEntryMethod[entry], path, handler)

LibAllOrder == <<"GET", "POST", "PUT", "DELETE">>

\* Server::all
Lib_Server_all(self, path, handler) ==
    IF \A m \in AllGuard : is_none(get(self.tree[m], path))
    THEN insert_each(self, LibAllOrder, 1, path, handler)
    ELSE [server |-> self, panic |-> FALSE]

LibInit == RouterIdle /\ MwIdle /\ TrieIdle /\ server = Lib_Server_new /\ ListenIdle

\* server.get(path, handler, ..), post, put, delete
LibRegister(entry, path) ==
    /\ Registering([entry |-> entry, path |-> path])
    /\ LET r == Lib_Server_entry(server, entry, path,
                                 fn([entry |-> entry, path |-> path], "respond")) IN
        /\ server' = r.server
        /\ panicked' = r.panic
    /\ registry' = registry \cup {[entry |-> entry, path |-> path]}
    /\ looked' = None
    /\ found' = None
    /\ UNCHANGED <<root, routes, factory, built, request, response, log>>
    /\ UNCHANGED <<parent, child, merged>>
    /\ UNCHANGED <<listener, tasks>>

\* server.all(path, handler, ..)
LibAll(path) ==
    /\ Registering([entry |-> "all", path |-> path])
    /\ LET r == Lib_Server_all(server, path,
                               fn([entry |-> "all", path |-> path], "respond")) IN
        /\ server' = r.server
        /\ panicked' = r.panic
    /\ registry' = registry \cup {[entry |-> "all", path |-> path]}
    /\ looked' = None
    /\ found' = None
    /\ UNCHANGED <<root, routes, factory, built, request, response, log>>
    /\ UNCHANGED <<parent, child, merged>>
    /\ UNCHANGED <<listener, tasks>>

\* server.find_handler(method, path)
LibFind(method, path) ==
    /\ ~panicked
    /\ looked' = Some([method |-> method, path |-> path])
    /\ found' = find_handler(server, method, path)
    /\ UNCHANGED <<server, registry, panicked>>
    /\ UNCHANGED <<root, routes, factory, built, request, response, log>>
    /\ UNCHANGED <<parent, child, merged>>
    /\ UNCHANGED <<listener, tasks>>

LibEntries == DOMAIN LibEntryMethod
LibLookups == {Canon(<<A>>), Canon(<<B>>)}

LibNext ==
    \/ \E e \in LibEntries, p \in ServerPaths : LibRegister(e, p)
    \/ \E p \in ServerPaths : LibAll(p)
    \/ \E m \in LibMethods, p \in LibLookups : LibFind(m, p)

SpecLib == LibInit /\ [][LibNext]_vars

-----------------------------------------------------------------------------
(* What the registered routes mean, stated without the trie: a route is the *)
(* sequence of its keys, a key being a literal segment or the wildcard.     *)

AllSegs == RouteSegs \cup LookupSegs
AllPaths == RoutePaths \cup LookupPaths

\* the segment sequence each driven path is written for
MeaningOf ==
    [p \in AllPaths |->
        IF p = <<"/">> THEN <<>>
        ELSE IF p \in Variants THEN <<A, B>>
        ELSE CHOOSE s \in AllSegs : Canon(s) = p]

WILD == <<"*">>
IsWildSeg(seg) == seg \in {X, Y}
KeysOf(segs) == [i \in 1..Len(segs) |-> IF IsWildSeg(segs[i]) THEN WILD ELSE segs[i]]
RouteKeys(r) == KeysOf(MeaningOf[r.path])
Prefix(s, k) == SubSeq(s, 1, k)

\* some registered route passes through the node with this key path
NodeExists(keys) ==
    \E r \in routes :
        /\ Len(RouteKeys(r)) >= Len(keys)
        /\ Prefix(RouteKeys(r), Len(keys)) = keys

\* the request segments q lead to the node with key path keys: a literal key
\* is matched verbatim, the wildcard only where no literal child is named q[i]
Follows(q, keys) ==
    /\ Len(q) = Len(keys)
    /\ \A i \in 1..Len(q) :
        IF keys[i] = WILD
        THEN ~NodeExists(Append(Prefix(keys, i - 1), q[i]))
        ELSE q[i] = keys[i]

LiteralSegs(segs) == \A i \in 1..Len(segs) : ~IsWildSeg(segs[i])
LiteralOnly == \A r \in routes : LiteralSegs(MeaningOf[r.path])

-----------------------------------------------------------------------------
\* C1: in a trie holding only literal routes, the lookup of every inserted
\* path returns the handler inserted there, and the lookup of every literal
\* path that was not inserted returns None.
C1_LiteralLookup ==
    (~panicked /\ LiteralOnly) =>
        \A p \in LookupPaths :
            LiteralSegs(MeaningOf[p]) =>
                /\ \A r \in routes :
                    MeaningOf[r.path] = MeaningOf[p] => get(root, p) = Some(r.handler)
                /\ (\A r \in routes : MeaningOf[r.path] # MeaningOf[p]) => get(root, p) = None

C1_Witness ==
    /\ ~panicked /\ LiteralOnly /\ Cardinality(routes) = 2
    /\ is_some(looked)
    /\ found = get(root, unwrap(looked))
    /\ \E r \in routes :
        /\ Len(MeaningOf[r.path]) = 2
        /\ MeaningOf[r.path] = MeaningOf[unwrap(looked)]
        /\ found = Some(r.handler)

\* C2: where a literal route and a wildcard route are siblings, a request
\* whose segment at that depth is the literal's name gets the literal
\* route's handler, whichever of the two was inserted first.
C2_LiteralOverWildcard ==
    ~panicked =>
        \A r1 \in routes, r2 \in routes :
            LET k1 == RouteKeys(r1)
                k2 == RouteKeys(r2)
                n  == Len(k1)
            IN  (/\ n >= 1 /\ Len(k2) = n
                 /\ Prefix(k1, n - 1) = Prefix(k2, n - 1)
                 /\ k1[n] # WILD /\ k2[n] = WILD) =>
                    \A p \in LookupPaths :
                        LET q == MeaningOf[p] IN
                        (/\ Len(q) = n
                         /\ Follows(Prefix(q, n - 1), Prefix(k1, n - 1))
                         /\ q[n] = k1[n]) => get(root, p) = Some(r1.handler)

\* "/a/b" and "/a/{x}" are both registered and "/a/b" was looked up
C2_Witness ==
    /\ ~panicked
    /\ is_some(looked)
    /\ \E r1 \in routes, r2 \in routes :
        /\ RouteKeys(r1) = <<A, B>> /\ RouteKeys(r2) = <<A, WILD>>
        /\ MeaningOf[unwrap(looked)] = <<A, B>>
        /\ found = Some(r1.handler)
        /\ found # Some(r2.handler)

Duplicate(p) == \E r \in routes : RouteKeys(r) = KeysOf(MeaningOf[p])

\* the insert creates a literal child next to an existing wildcard child
NewLiteralBesideWildcard(p) ==
    LET keys == KeysOf(MeaningOf[p]) IN
    \E k \in 1..Len(keys) :
        /\ keys[k] # WILD
        /\ ~NodeExists(Prefix(keys, k))
        /\ NodeExists(Append(Prefix(keys, k - 1), WILD))

EarlierHitsKept == \A q \in LookupPaths : is_some(get(root, q)) => get(root', q) = get(root, q)

\* C3 as stated: a duplicate insert is fatal and overwrites nothing, any other
\* insert succeeds and leaves every earlier successful lookup as it was.
C3_AsStated ==
    [][\A p \in RoutePaths :
        Insert(p, HandlerAt(p)) =>
            IF Duplicate(p)
            THEN panicked' /\ root' = root
            ELSE ~panicked' /\ get(root', p) = Some(HandlerAt(p)) /\ EarlierHitsKept]_vars

\* C3 (amended): a duplicate insert is fatal and overwrites nothing; any other
\* insert succeeds, keeps the handler stored for every earlier route, and
\* leaves every earlier successful lookup as it was unless it creates a
\* literal child next to a wildcard child.
C3_DuplicateFatal ==
    [][\A p \in RoutePaths :
        Insert(p, HandlerAt(p)) =>
            IF Duplicate(p)
            THEN panicked' /\ root' = root /\ routes' = routes
            ELSE /\ ~panicked'
                 /\ get(root', p) = Some(HandlerAt(p))
                 /\ \A r \in routes : get(root', r.path) = Some(r.handler)
                 /\ ~NewLiteralBesideWildcard(p) => EarlierHitsKept]_vars

\* a duplicate insert has panicked and the first handler is still found
C3_Witness ==
    /\ panicked
    /\ Cardinality(routes) = 1
    /\ \E r \in routes : get(root, r.path) = Some(r.handler)

C5_WildcardOneSegment ==
    (~panicked /\ Cardinality(routes) = 1) =>
        \A r \in routes :
            LET keys == RouteKeys(r) IN
            (\E i \in 1..Len(keys) : keys[i] = WILD) =>
                \A p \in LookupPaths :
                    LET q == MeaningOf[p] IN
                    get(root, p) =
                        IF /\ Len(q) = Len(keys)
                           /\ \A i \in 1..Len(q) : keys[i] = WILD \/ q[i] = keys[i]
                        THEN Some(r.handler)
                        ELSE None

\* only "/a/{x}" is registered and "/a/b" was looked up and found
C5_Witness ==
    /\ ~panicked
    /\ routes = {[path |-> Canon(<<A, X>>), handler |-> HandlerAt(Canon(<<A, X>>))]}
    /\ looked = Some(Canon(<<A, B>>))
    /\ found = Some(HandlerAt(Canon(<<A, X>>)))
    /\ is_none(get(root, Canon(<<A>>)))
    /\ is_none(get(root, Canon(<<A, B, A>>)))

-----------------------------------------------------------------------------
(* The middleware pipeline of one built route *)

Done == is_some(response)
AllGaveOk == \A i \in 1..Len(log) : log[i].gave.ok
IdsOf(closure) == {closure[i].step.id : i \in 1..Len(closure)}
\* the log entries of a stage, in the order they were written
Of(stage) == SelectSeq(log, LAMBDA e : e.stage = stage)
Ascending(entries) == \A i \in 1..Len(entries) - 1 : entries[i].id < entries[i + 1].id
Stages == [i \in 1..Len(log) |-> log[i].stage]

\* C6: on a request on which no step fails the pre-steps run in the order
\* they were appended, then the handler, then the after-steps in the order
\* they were appended; each step runs once and is given what the step before
\* it returned, and the response is what the last one returned.
C6_StrictOrder ==
    (Done /\ AllGaveOk) =>
        /\ Stages = [i \in 1..Len(log) |->
                        IF i <= Len(factory.pre) THEN "pre"
                        ELSE IF i = Len(factory.pre) + 1 THEN "handler"
                        ELSE "after"]
        /\ Len(log) = Len(factory.pre) + 1 + Len(factory.after)
        /\ {e.id : e \in {log[i] : i \in 1..Len(factory.pre)}} = IdsOf(factory.pre)
        /\ {e.id : e \in {log[i] : i \in Len(factory.pre) + 2..Len(log)}} = IdsOf(factory.after)
        /\ Ascending(Of("pre")) /\ Ascending(Of("after"))
        /\ log[1].got = Ok(unwrap(request))
        /\ \A i \in 1..Len(log) - 1 : log[i + 1].got = log[i].gave
        /\ unwrap(response) = log[Len(log)].gave

\* two pre-steps, the handler and an after-step ran, none failing
C6_Witness ==
    /\ Done /\ AllGaveOk
    /\ Len(factory.pre) = 2 /\ Len(factory.after) = 1
    /\ Len(log) = 4
    /\ log[1].id = 1 /\ log[2].id = 2 /\ log[3].stage = "handler" /\ log[4].id = 3

C8_AfterAlwaysRuns ==
    (Done /\ Len(factory.after) > 0 /\ factory.after[1].how = "after_error") =>
        \E i \in 2..Len(log) :
            /\ log[i].stage = "after"
            /\ log[i].id = factory.after[1].step.id
            /\ log[i - 1].stage # "after"
            /\ log[i].got = log[i - 1].gave

\* what reaches the last after-step: the result of the last user function
\* that is not that step
BeforeLastAfter == SelectSeq(log, LAMBDA e : e.id # Last(factory.after).step.id)

\* C9 as stated: when the last after-step maps every error to a fixed
\* response, a request whose pre-step, handler or earlier after-step left an
\* error is answered with that fixed response.
C9_ErrorMappedToFixed ==
    (/\ Done
     /\ Len(factory.after) > 0
     /\ Last(factory.after).how = "after_error"
     /\ Last(factory.after).step.does = "handle_error"
     /\ Len(BeforeLastAfter) > 0
     /\ ~Last(BeforeLastAfter).gave.ok) =>
        unwrap(response) = Ok(Response_new(<<StepMark(Last(factory.after).step.id)>>))

-----------------------------------------------------------------------------
(* Routes of a merged router *)

LogIds == [i \in 1..Len(log) |-> log[i].id]
StepIds(w, stage, n) == [k \in 1..n |-> StepId(w, stage, k)]

\* the routes a request was aimed at, as they were registered
Aimed(w) ==
    {reg \in registry : /\ reg.owner = w
                        /\ reg.method = unwrap(request).method
                        /\ segments(reg.path) = segments(unwrap(request).path)}

Served == ~panicked /\ is_some(request) /\ is_some(merged)

\* C10: after parent.router(child), a request to a route that came from the
\* child runs the parent's pre-steps (those the parent had at the merge), then
\* the pre-steps the child wrapped the route with, then the handler, then the
\* child's after-steps, then the parent's after-steps, each once, in that order.
C10_MergedOrder ==
    Served =>
        \A reg \in Aimed("child") :
            /\ is_some(response)
            /\ LogIds = StepIds("parent", "pre", unwrap(merged).pre)
                        \o StepIds("child", "pre", reg.steps.pre)
                        \o <<FnName("child", reg.method, reg.path)>>
                        \o StepIds("child", "after", reg.steps.after)
                        \o StepIds("parent", "after", unwrap(merged).after)

\* a child route wrapped with a pre- and an after-step of the child, merged
\* into a parent that had a pre- and an after-step, has served a request
C10_Witness ==
    /\ Served
    /\ \E reg \in Aimed("child") : reg.steps.pre > 0 /\ reg.steps.after > 0
    /\ unwrap(merged).pre > 0
    /\ unwrap(merged).after > 0
    /\ Len(log) = 5
    /\ is_some(response)

\* C11: after parent.router(child), a request to a route registered on the
\* parent itself runs the steps the parent wrapped that route with, each once,
\* around the handler, and no step of the child.
C11_ParentRouteOwnSteps ==
    Served =>
        \A reg \in Aimed("parent") :
            /\ is_some(response)
            /\ LogIds = StepIds("parent", "pre", reg.steps.pre)
                        \o <<FnName("parent", reg.method, reg.path)>>
                        \o StepIds("parent", "after", reg.steps.after)
            /\ \A i \in 1..Len(log) : log[i].id.owner = "parent"

\* the child had steps of its own and a route, the parent route was wrapped
\* with a pre- and an after-step of the parent, and it has served a request
C11_Witness ==
    /\ Served
    /\ \E reg \in Aimed("parent") : reg.steps.pre > 0 /\ reg.steps.after > 0
    /\ \E reg \in registry : reg.owner = "child" /\ reg.steps.pre > 0 /\ reg.steps.after > 0
    /\ Len(log) = 3

-----------------------------------------------------------------------------
(* Routes across a merge *)

\* the step in which parent.router(child) returned
MergeStep == is_some(child) /\ child' = None /\ ~panicked'

\* C12 as stated: after parent.router(child), for every method, a path that
\* resolved in the parent resolves to the same handler, and a path that
\* resolved in the child resolves to that handler wrapped by the parent's
\* pipeline (to either, where it resolved in both).
C12_MergeKeepsRoutes ==
    [][MergeStep =>
        \A m \in Methods, p \in MergeLookups :
            LET inParent == find_route(parent, m, p)
                inChild == find_route(unwrap(child), m, p)
                wrapped == Some(encapsulate_runner(
                               build(parent.middleware_factory, unwrap(inChild))))
                now == find_route(parent', m, p)
            IN  /\ (is_some(inParent) /\ is_none(inChild)) => now = inParent
                /\ (is_none(inParent) /\ is_some(inChild)) => now = wrapped
                /\ (is_some(inParent) /\ is_some(inChild)) => now \in {inParent, wrapped}]_vars

-----------------------------------------------------------------------------
(* Dispatch *)

Dispatched == is_some(built) /\ is_some(request) /\ is_some(response)
Ran(what) == \E i \in 1..Len(log) : log[i] = what
Undecodable ==
    /\ unwrap(request).ok
    /\ unwrap(built).Extractor = "Json"
    /\ \/ unwrap(request).val.body = <<>>
       \/ \E i \in 1..Len(unwrap(request).val.body) :
            unwrap(request).val.body[i] \notin {"0", "1", "2", "3", "4", "5", "6", "7", "8", "9"}

\* C13: when the body cannot be deserialized by the route's deserializer and
\* the user computation does not take a Result, the outcome is an error with
\* status 422 whose body is the codec's message, the user computation is not
\* invoked, and the response delivered has status 422.
C13_Undecodable422 ==
    (Dispatched /\ Undecodable /\ ~unwrap(built).FnIn.result) =>
        /\ ~unwrap(response).result.ok
        /\ unwrap(response).result.err.code = 422
        /\ unwrap(response).result.err.body = CodecMessage(unwrap(request).val.body)
        /\ ~Ran("user")
        /\ unwrap(response).delivered.status = 422

\* C13 as stated, for every input type: with an input type that is a Result
\* the failure is handed to the user computation, which is invoked.
C13_AsStated ==
    (Dispatched /\ Undecodable) =>
        /\ ~unwrap(response).result.ok
        /\ unwrap(response).result.err.code = 422
        /\ ~Ran("user")
        /\ unwrap(response).delivered.status = 422

\* Json was given "4x" for a user computation taking the body: only the
\* deserializer ran and a 422 was delivered
C13_Witness ==
    /\ Dispatched /\ Undecodable /\ ~unwrap(built).FnIn.result
    /\ unwrap(request).val.body = <<"4", "x">>
    /\ unwrap(response).delivered.status = 422
    /\ log = <<"deserializer">>

\* C14: when the input reaching dispatch is already an error and the input
\* type of the user computation is not a Result, the outcome is that error,
\* code and body, and neither the deserializer nor the user computation nor
\* the serializer has run.
C14_UpstreamErrorKept ==
    (Dispatched /\ ~unwrap(request).ok /\ ~unwrap(built).FnIn.result) =>
        /\ unwrap(response).result = unwrap(request)
        /\ log = <<>>

\* an upstream error with code 1000 went through a Json runner untouched
C14_Witness ==
    /\ Dispatched
    /\ unwrap(request) = Err(Error_new(Complaint, 1000))
    /\ ~unwrap(built).FnIn.result
    /\ unwrap(built).Extractor = "Json"
    /\ unwrap(response).result = unwrap(request)
    /\ log = <<>>

\* C15: when the user computation returns a failure with a code and a body of
\* its own, the dispatch outcome is exactly that error and the serializer has
\* not run on it.
C15_DeclaredFailureKept ==
    (Dispatched /\ Ran("user") /\ unwrap(built).code # 0 - 1) =>
        /\ unwrap(response).result = Err(Error_new(Complaint, unwrap(built).code))
        /\ ~Ran("serializer")

\* a user computation behind the Json codec failed with 404 on a decodable body
C15_Witness ==
    /\ Dispatched
    /\ unwrap(built).code = 404
    /\ unwrap(built).Extractor = "Json" /\ unwrap(built).Serializer = "Json"
    /\ log = <<"deserializer", "user">>
    /\ unwrap(response).result = Err(Error_new(Complaint, 404))

Unrecovered == Dispatched /\ ~unwrap(response).result.ok
Renderable(code) == 100 <= code /\ code <= 999

\* C16 as stated: the response made from an unrecovered Error(code, body) has
\* status code and body body, whatever the code.
C16_AsStated ==
    Unrecovered =>
        unwrap(response).delivered = [status |-> unwrap(response).result.err.code,
                                      body |-> unwrap(response).result.err.body]

\* C16: the response made from an unrecovered Error(code, body) has status
\* code and body body when code is within 100..999; for any other code it is a
\* 500 whose body is the message of the refused status, not the error's body.
C16_RenderedWithinRange ==
    Unrecovered =>
        LET err == unwrap(response).result.err IN
        IF Renderable(err.code)
        THEN unwrap(response).delivered = [status |-> err.code, body |-> err.body]
        ELSE /\ unwrap(response).delivered.status = 500
             /\ unwrap(response).delivered.body # err.body

\* a user computation failed with 999 and the response carries 999 and its body
C16_Witness ==
    /\ Unrecovered
    /\ unwrap(built).code = 999
    /\ Ran("user")
    /\ unwrap(response).delivered = [status |-> 999, body |-> Complaint]

-----------------------------------------------------------------------------
(* Connections *)

\* a route covers a request path: as many segments, each equal or a wildcard
Covers(route, path) ==
    /\ Len(route) = Len(path)
    /\ \A i \in 1..Len(route) : route[i] = WILD \/ route[i] = path[i]

\* the request targets the connections are driven with, and their paths
AskedTargets ==
    [target : {Canon(<<A>>), Canon(<<B>>), Canon(<<A, B>>)}, query : {None}]
    \cup {[target |-> Canon(<<A>>) \o <<"?", "q">>, query |-> Some(<<"q">>)]}
AskedPath(asked) ==
    IF is_some(asked.query)
    THEN SubSeq(asked.target, 1, Len(asked.target) - Len(unwrap(asked.query)) - 1)
    ELSE asked.target

\* the connection carried a well-formed HTTP/1.1 request for (m, asked)
WellFormed(lines, m, asked) ==
    /\ lines # <<>>
    /\ lines[1] = MethodToken[m] \o <<" ">> \o asked.target \o <<" ">> \o HTTP_1_1
    /\ \/ Len(lines) = 1
       \/ Tail(lines) = << <<"A", "c", "c", "e", "s", "s", ":", "0">>, <<>>, <<"h", "i">> >>

RegisteredFor(m, path) ==
    \E call \in registry :
        /\ EntryMethod[call.entry] = m
        /\ Covers(KeysOf(segments(call.path)), segments(path))

Connected == ~panicked /\ is_some(request) /\ is_some(response)

\* C17: a well-formed HTTP/1.1 request whose method and path have no
\* registered handler ends in "404 Not Found", and no handler is invoked.
C17_UnroutedIs404 ==
    Connected =>
        \A m \in Methods, asked \in AskedTargets :
            (WellFormed(unwrap(request), m, asked) /\ ~RegisteredFor(m, AskedPath(asked))) =>
                /\ unwrap(response).kind = "error"
                /\ unwrap(response).text = "404 Not Found"
                /\ log = <<>>

\* GET /a is registered and "GET /b HTTP/1.1" with a header and a body was served
C17_Witness ==
    /\ Connected
    /\ registry = {[entry |-> "get", path |-> Canon(<<A>>)]}
    /\ WellFormed(unwrap(request), "GET", [target |-> Canon(<<B>>), query |-> None])
    /\ Len(unwrap(request)) = 4
    /\ unwrap(response).text = "404 Not Found"

-----------------------------------------------------------------------------
(* Routes per method *)

\* the method an entry point is named after
NamedMethod ==
    [get |-> "GET", post |-> "POST", put |-> "PUT", delete |-> "DELETE", trace |-> "TRACE",
     options |-> "OPTIONS", connect |-> "CONNECT", patch |-> "PATCH", head |-> "HEAD"]

\* the handler a registration call gave
Given(call) == encapsulate_runner(fn(call, "respond"))

\* C18 as stated: a handler registered through the entry point of method M at
\* path P is what a lookup for (M, P) returns, and a lookup for another
\* method finds a handler only if one was registered for that method.
C18_MethodsIsolated ==
    ~panicked =>
        /\ \A call \in registry :
                call.entry # "all" =>
                    find_handler(server, NamedMethod[call.entry], call.path) = Some(Given(call))
        /\ \A m \in DOMAIN server.tree, p \in LibLookups :
                is_some(find_handler(server, m, p)) =>
                    \E call \in registry :
                        /\ call.entry = "all" \/ NamedMethod[call.entry] = m
                        /\ Covers(KeysOf(segments(call.path)), segments(p))

\* the server holds a route at this path: a registration named the same keys
HoldsRouteAt(path) ==
    \E call \in registry : KeysOf(segments(call.path)) = KeysOf(segments(path))

\* the step in which server.all(path, ..) returned
AllStep(path) ==
    /\ ~panicked'
    /\ [entry |-> "all", path |-> path] \notin registry
    /\ registry' = registry \cup {[entry |-> "all", path |-> path]}

\* C19 as stated: after all(path, handler) on a server holding no route at
\* that path, the lookup for (M, path) returns that handler for each of the
\* nine methods.
C19_AllGivesNine ==
    [][\A path \in ServerPaths :
        (AllStep(path) /\ ~HoldsRouteAt(path)) =>
            \A m \in Methods :
                find_handler(server', m, path)
                    = Some(Given([entry |-> "all", path |-> path]))]_vars

\* the step in which a registration call was made for the first time
Called(call) == call \notin registry /\ registry' = registry \cup {call}

\* a handler is already registered for a method and path the call names
Clashes(call) ==
    \E old \in registry :
        /\ KeysOf(segments(old.path)) = KeysOf(segments(call.path))
        /\ \/ old.entry = "all"
           \/ call.entry = "all"
           \/ NamedMethod[old.entry] = NamedMethod[call.entry]

\* C20 as stated: a registration through any entry point, all included, is
\* fatal when a handler already exists at the same method and path.
C20_EveryDuplicateFatal ==
    [][\A e \in Entries \cup {"all"}, path \in ServerPaths :
        (Called([entry |-> e, path |-> path]) /\ Clashes([entry |-> e, path |-> path]))
            => panicked']_vars

-----------------------------------------------------------------------------
(* The middleware of the router that router() returns *)

\* a route registered on r at a path neither router uses, and a request to it
LaterRoute == Canon(<<A, A>>)
LaterLog(r) ==
    LET added == method_insert(r, "GET", LaterRoute,
                               fn(FnName("parent", "GET", LaterRoute), "respond"))
        h == find_route(added.router, "GET", LaterRoute)
        out == call_handler(unwrap(h), Request_new(<<ClientMark>>), <<>>)
    IN  [i \in 1..Len(out.log) |-> out.log[i].id]

\* C21 as stated: a route registered on the router that parent.router(child)
\* returned is wrapped by the parent's steps followed by the child's steps.
C21_ReturnedMiddlewareConcatenated ==
    [][MergeStep =>
        LaterLog(parent') =
            StepIds("parent", "pre", Captured("parent").pre)
            \o StepIds("child", "pre", Captured("child").pre)
            \o <<FnName("parent", "GET", LaterRoute)>>
            \o StepIds("parent", "after", Captured("parent").after)
            \o StepIds("child", "after", Captured("child").after)]_vars

-----------------------------------------------------------------------------
(* Requests served concurrently *)

Finished(id) == id \in 1..Len(tasks) /\ is_some(tasks[id].out)

\* what each finished request got is what it gets when it is served alone
EachAsAlone ==
    \A id \in 1..MaxConns :
        Finished(id) => unwrap(tasks[id].out) = connection_loop(server, tasks[id].lines)

\* a step of one task leaves the stream, the locals and the answer of every
\* other task as they were
OthersUntouched ==
    /\ Len(tasks') >= Len(tasks)
    /\ Cardinality({id \in 1..Len(tasks) : tasks'[id] # tasks[id]}) <= 1
    /\ \A id \in 1..Len(tasks) : tasks'[id].lines = tasks[id].lines

\* no route is added once the server listens
TrieFrozen == listener # "building" => server' = server

-----------------------------------------------------------------------------
(* A suspended request and the others *)

Room == listener = "accepting" /\ Len(tasks) < MaxConns

\* C23: while a request awaits its user computation the accept loop goes on
\* taking streams in (until it has taken MaxConns or has ended with an error),
\* and every request whose own handler has completed is eventually answered,
\* whether or not the handlers of the others ever complete.
C23_SuspendedDoesNotBlock ==
    /\ Room ~> ~Room
    /\ \A id \in 1..MaxConns : Running(id, "responded") ~> Running(id, "answered")

\* the accept loop is still open after it took in a second stream while the
\* first request was suspended, and that second request has been answered
C23_Witness ==
    /\ listener = "accepting"
    /\ Len(tasks) >= 2
    /\ tasks[1].pc = "awaiting"
    /\ tasks[2].pc = "answered"

-----------------------------------------------------------------------------
(* extend, node by node *)

\* C24 as stated: after extend, every path that resolved to a handler in the
\* other trie resolves in self, also a path whose node lies below another
\* node that holds a handler ("/a/b" below "/a").
C24_ExtendTakesEveryNode ==
    [][MergeStep =>
        \A m \in MergeMethods, p \in MergeLookups :
            is_some(get(unwrap(child).tree[m], p)) => is_some(get(parent'.tree[m], p))]_vars

-----------------------------------------------------------------------------
(* extend and parameter routes *)

C == <<"c">>
\* request paths: segments no route names, segments routes name, and the
\* text rec_extend builds for a parameter node
WildLookups ==
    {Canon(<<C>>), Canon(<<B>>), Canon(<<A>>), Canon(<<A, C>>), Canon(<<A, B>>),
     Canon(<<C, C>>), Canon(<<A>>) \o BareWildcard, SlashWildcard}

\* C25 as stated: after the merge every request path resolves in the parent
\* (which had no route of its own) exactly when it resolved in the child, and
\* to the child's handler for it, wrapped: a parameter route of the child is a
\* parameter route of the parent at the same depth.
C25_ExtendKeepsWildcards ==
    [][MergeStep =>
        \A m \in WildMethods, q \in WildLookups :
            LET inChild == get(unwrap(child).tree[m], q)
                now == get(parent'.tree[m], q)
            IN  now = IF is_some(inChild)
                      THEN Some(encapsulate_runner(
                               build(parent.middleware_factory, unwrap(inChild))))
                      ELSE None]_vars

-----------------------------------------------------------------------------
(* apply and the shape of the trie *)

\* the step in which apply wrapped at least one handler
ApplyStep == routes' = routes /\ root' # root /\ ~panicked'

\* request paths: every route, and paths short of, beside and past them
ApplyLookups == ApplyPaths \cup {Canon(<<B>>), Canon(<<A, A>>), Canon(<<A, B, A>>),
                                 Canon(<<B, A>>), Canon(<<B, B>>)}

\* a trie without its handlers: which nodes there are, and which hold one
RECURSIVE Shape(_)
Shape(node) ==
    [holds |-> is_some(node.value),
     childrens |-> IF is_some(node.childrens)
                   THEN Some([k \in DOMAIN unwrap(node.childrens) |->
                                Shape(unwrap(node.childrens)[k])])
                   ELSE None,
     wildcard_node |-> IF is_some(node.wildcard_node)
                       THEN Some(Shape(unwrap(node.wildcard_node)))
                       ELSE None]

\* C26: apply leaves every request path resolving or not as before, and where
\* a path resolved it now resolves to the handler that was there, built with
\* the factory and encapsulated; the nodes, and which of them hold a handler,
\* are the same.
C26_ApplyKeepsShape ==
    [][ApplyStep =>
        /\ \A q \in ApplyLookups :
            LET before == get(root, q)
                now == get(root', q)
            IN  now = IF is_some(before)
                      THEN Some(encapsulate_runner(build(factory, unwrap(before))))
                      ELSE None
        /\ Shape(root') = Shape(root)]_vars

\* apply has wrapped, with a factory of at least one step, the handlers of a
\* trie that holds a handler below a literal and one below a parameter node
C26_Witness ==
    /\ ~panicked
    /\ Cardinality(routes) = 2
    /\ \A r \in routes : Wrappers(unwrap(get(root, r.path))) = 1
    /\ \E r \in routes : unwrap(get(root, r.path)).runner.pre # <<>>
    /\ \E r \in routes : \E i \in 1..Len(segments(r.path)) : IsWildSeg(segments(r.path)[i])
    /\ \E r \in routes : \A i \in 1..Len(segments(r.path)) : ~IsWildSeg(segments(r.path)[i])

-----------------------------------------------------------------------------
(* Parameter names *)

\* the keys of a path as written: a parameter segment of any name is WILD
Keys(path) ==
    LET segs == segments(path)
    IN  [i \in 1..Len(segs) |->
            IF segs[i][1] = "{" /\ segs[i][Len(segs[i])] = "}" THEN WILD ELSE segs[i]]

\* some route goes through a literal child named seg of the node at keys
LiteralChild(keys, seg) ==
    \E o \in routes :
        /\ Len(Keys(o.path)) > Len(keys)
        /\ Prefix(Keys(o.path), Len(keys) + 1) = Append(keys, seg)

\* the request path agrees with the route on every literal segment, and where
\* the route has a parameter no literal sibling is named like the request
Agrees(q, route) ==
    /\ Len(segments(q)) = Len(Keys(route))
    /\ \A i \in 1..Len(segments(q)) :
        IF Keys(route)[i] = WILD
        THEN ~LiteralChild(Prefix(Keys(route), i - 1), segments(q)[i])
        ELSE Keys(route)[i] = segments(q)[i]

\* no node of the trie has a literal child named like a parameter segment
RECURSIVE OneWildcardChild(_)
OneWildcardChild(node) ==
    /\ Len(node.wildcard_node) <= 1
    /\ is_some(node.wildcard_node) => OneWildcardChild(unwrap(node.wildcard_node))
    /\ is_some(node.childrens) =>
        \A k \in DOMAIN unwrap(node.childrens) :
            /\ k \notin {X, Y}
            /\ OneWildcardChild(unwrap(node.childrens)[k])

\* C27: parameter names are not distinguished.  An insert whose path differs
\* from a registered one in parameter names only is a duplicate and fatal;
\* routes that go through parameter segments of different names share the
\* wildcard child, so a request resolves to the route it agrees with on the
\* literal segments, whatever its segment at the parameter; and no node has
\* more than one wildcard child.
C27_ParamNamesCollapse ==
    /\ [](~panicked =>
            /\ OneWildcardChild(root)
            /\ \A r \in routes, q \in ParamLookups :
                Agrees(q, r.path) => get(root, q) = Some(r.handler))
    /\ [][\A p \in ParamRoutes :
            (Insert(p, HandlerAt(p)) /\ \E r \in routes : Keys(r.path) = Keys(p)) =>
                (panicked' /\ root' = root)]_vars

\* "/a/{x}/a" and "/a/{y}/b" are registered, a request for "/a/b/b" found the
\* second and "/a/b/a" resolves to the first
C27_Witness ==
    /\ ~panicked
    /\ {r.path : r \in routes} = {Canon(<<A, X, A>>), Canon(<<A, Y, B>>)}
    /\ looked = Some(Canon(<<A, B, B>>))
    /\ found = Some(HandlerAt(Canon(<<A, Y, B>>)))
    /\ get(root, Canon(<<A, B, A>>)) = Some(HandlerAt(Canon(<<A, X, A>>)))

-----------------------------------------------------------------------------
(* Spellings of a path *)

SameRoute(p, q) == MeaningOf[p] = MeaningOf[q]

\* C28: a path counts by its non-empty segments, in insert and in lookup.
\* A lookup under any spelling of a registered route ("/a/b", "a/b", "/a//b",
\* "/a/b/"; "" and "/" for the root) finds the handler inserted under any
\* other, and an insert under another spelling of a registered route is a
\* duplicate: it panics and changes nothing.
C28_SpellingsAgree ==
    /\ [](~panicked =>
            \A r \in routes, p \in LookupPaths :
                SameRoute(p, r.path) => get(root, p) = Some(r.handler))
    /\ [][\A p \in RoutePaths :
            (Insert(p, HandlerAt(p)) /\ \E r \in routes : SameRoute(p, r.path)) =>
                (panicked' /\ root' = root /\ routes' = routes)]_vars

\* the root was registered as "/" and a route as "a/b", and the lookup of
\* "/a//b" found the latter; the root is found under ""
C28_Witness ==
    /\ ~panicked
    /\ {r.path : r \in routes} = {<<"/">>, <<"a", "/", "b">>}
    /\ looked = Some(<<"/", "a", "/", "/", "b">>)
    /\ found = Some(HandlerAt(<<"a", "/", "b">>))
    /\ get(root, <<>>) = Some(HandlerAt(<<"/">>))

-----------------------------------------------------------------------------
(* Where a lookup ends *)

\* the route has as many segments as the request and names its literal ones
Spans(r, q) ==
    /\ Len(RouteKeys(r)) = Len(q)
    /\ \A i \in 1..Len(q) : RouteKeys(r)[i] \in {WILD, q[i]}

\* C29: a lookup returns a handler only where the whole request path ends on
\* the node of a registered route, and then that route's handler: a request
\* that stops short of every route through its node, or goes on past the
\* last segment of the routes on its way, gets None.
C29_WholePathOnly ==
    ~panicked =>
        \A p \in LookupPaths :
            is_some(get(root, p)) =>
                \E r \in routes : Spans(r, MeaningOf[p]) /\ get(root, p) = Some(r.handler)

\* only "/a/b" is registered: the lookup of "/a" returned None, and so does
\* the lookup of "/a/b/a", while "/a/b" resolves
C29_Witness ==
    /\ ~panicked
    /\ {RouteKeys(r) : r \in routes} = {<<A, B>>}
    /\ is_some(looked)
    /\ MeaningOf[unwrap(looked)] = <<A>>
    /\ found = None
    /\ get(root, Canon(<<A, B, A>>)) = None
    /\ is_some(get(root, Canon(<<A, B>>)))

\* C30: a lookup does not backtrack.  It returns the handler of a route only
\* if at every parameter segment of that route no literal sibling is named
\* like the request's segment, also when the literal branch then leads
\* nowhere: with "/a/a" and "/{x}/b" registered, "/a/b" gets None.
C30_NoBacktracking ==
    ~panicked =>
        \A p \in LookupPaths, r \in routes :
            get(root, p) = Some(r.handler) => Follows(MeaningOf[p], RouteKeys(r))

\* "/a/a" and "/{x}/b" are registered, the lookup of "/a/b" returned None and
\* "/b/b" resolves through the parameter
C30_Witness ==
    /\ ~panicked
    /\ {RouteKeys(r) : r \in routes} = {<<A, A>>, <<WILD, B>>}
    /\ is_some(looked)
    /\ MeaningOf[unwrap(looked)] = <<A, B>>
    /\ found = None
    /\ is_some(get(root, Canon(<<B, B>>)))

-----------------------------------------------------------------------------
(* Order of insertion *)

\* the trie that holds the routes, inserted in one order fixed for each set
RECURSIVE InsertAll(_, _)
InsertAll(node, rs) ==
    IF rs = {} THEN node
    ELSE LET r == CHOOSE r \in rs : TRUE
         IN  InsertAll(insert(node, r.path, r.handler).node, rs \ {r})

\* C31: the result of every lookup depends on the set of routes inserted and
\* not on their order: the trie reached by any order of inserts answers every
\* lookup as the trie built from the same routes in the one fixed order does.
C31_OrderIrrelevant ==
    ~panicked =>
        \A p \in LookupPaths : get(root, p) = get(InsertAll(DefaultNode, routes), p)

\* a literal route and a parameter route below the same node are registered
\* (in either order) and a lookup has found one of them
C31_Witness ==
    /\ ~panicked
    /\ {RouteKeys(r) : r \in routes} = {<<A, B>>, <<A, WILD>>}
    /\ is_some(looked)
    /\ is_some(found)
    /\ found = get(InsertAll(DefaultNode, routes), unwrap(looked))

-----------------------------------------------------------------------------
(* Recovery in the pre-chain *)

\* log[i] is a pre_error step that was given an error and returned a request,
\* and no pre-step after it failed
Recovered(i) ==
    /\ log[i].stage = "pre"
    /\ log[i].how = "pre_error"
    /\ ~log[i].got.ok
    /\ log[i].gave.ok
    /\ \A j \in i + 1..Len(log) : log[j].stage = "pre" => log[j].gave.ok

\* C32: when a pre_error step turns an upstream error back into a request,
\* every pre-step appended after it and then the handler run, each on what the
\* one before it returned, starting from the recovered request; and (with no
\* after-step to change it) the response is the handler's, not the error.
C32_PreRecovery ==
    Done =>
        \A i \in 1..Len(log) :
            Recovered(i) =>
                \E h \in i + 1..Len(log) :
                    /\ log[h].stage = "handler"
                    /\ \A j \in i..h - 1 : log[j + 1].got = log[j].gave
                    /\ {log[j].id : j \in i + 1..h - 1}
                         = {factory.pre[k].step.id :
                              k \in {k \in 1..Len(factory.pre) :
                                        factory.pre[k].step.id > log[i].id}}
                    /\ Len(factory.after) = 0 =>
                         unwrap(response) = Ok(render(log[h].gave))

\* P1 failed, P2 (pre_error) recovered, P3 transformed the recovered request
\* and the handler answered it
C32_Witness ==
    /\ Done
    /\ Len(log) = 4
    /\ ~log[1].gave.ok
    /\ Recovered(2)
    /\ log[3].stage = "pre" /\ log[3].got = log[2].gave
    /\ log[4].stage = "handler" /\ log[4].gave.ok
    /\ unwrap(response) = Ok(log[4].gave.val)

-----------------------------------------------------------------------------
(* Plain steps and fallible steps *)

Chain(stage) == IF stage = "pre" THEN factory.pre ELSE factory.after
HandlerEntries == SelectSeq(log, LAMBDA e : e.stage = "handler")

\* the chain was called: the pre-chain on every request, the after-chain with
\* the response of the handler
Entered(stage) == stage = "pre" \/ (Len(HandlerEntries) = 1 /\ HandlerEntries[1].gave.ok)
Start(stage) == IF stage = "pre" THEN Ok(unwrap(request)) ELSE HandlerEntries[1].gave

\* the log entries of the first k steps of the chain, in order
Upto(stage, k) ==
    SelectSeq(log, LAMBDA e : /\ e.stage = stage
                              /\ \E j \in 1..k : Chain(stage)[j].step.id = e.id)
Invoked(stage, k) == \E i \in 1..Len(log) : log[i].stage = stage /\ log[i].id = Chain(stage)[k].step.id

\* the result of the chain before its k-th step: what the last step invoked
\* before it returned
Before(stage, k) ==
    IF Upto(stage, k - 1) = <<>> THEN Start(stage) ELSE Last(Upto(stage, k - 1)).gave

\* C33: a step appended with pre or after is invoked exactly when the result
\* of the chain before it is a success, and is skipped otherwise, the error
\* going on unchanged; a step appended with pre_error or after_error is
\* invoked in either case; every invoked step is given the result of the
\* chain before it.
C33_PlainSkippedFallibleInvoked ==
    Done =>
        \A stage \in {"pre", "after"} :
            Entered(stage) =>
                /\ \A k \in 1..Len(Chain(stage)) :
                    /\ Invoked(stage, k) <=>
                        (Chain(stage)[k].how \in {"pre_error", "after_error"}
                         \/ Before(stage, k).ok)
                    /\ Invoked(stage, k) => Last(Upto(stage, k)).got = Before(stage, k)
                /\ ~Before(stage, Len(Chain(stage)) + 1).ok =>
                    unwrap(response) =
                        Ok(error_into_response(Before(stage, Len(Chain(stage)) + 1).err))

\* A1 failed, A2 (appended with after) was skipped and A3 (after_error) was
\* given A1's error
C33_Witness ==
    /\ Done
    /\ Len(factory.after) = 3
    /\ factory.after[2].how = "after"
    /\ factory.after[3].how = "after_error"
    /\ Entered("after")
    /\ ~Before("after", 2).ok
    /\ ~Invoked("after", 2)
    /\ Invoked("after", 3)
    /\ Last(log).got = Before("after", 2)

-----------------------------------------------------------------------------
(* The after-chain *)

\* C34: the after-steps that are invoked run in the order they were appended,
\* the first on the handler's response and each next one on what the one
\* before it returned, and when the step appended last is invoked the
\* response is what it returned: for A1 (transform), A2 (produce error) and
\* A3 (recover error) the response is A3's recovery value.
C34_AfterInOrder ==
    (Done /\ Entered("after") /\ Len(factory.after) > 0) =>
        LET ran == Of("after") IN
        /\ Ascending(ran)
        /\ Len(ran) > 0 => ran[1].got = HandlerEntries[1].gave
        /\ \A i \in 1..Len(ran) - 1 : ran[i + 1].got = ran[i].gave
        /\ Invoked("after", Len(factory.after)) =>
            /\ Last(ran).id = Last(factory.after).step.id
            /\ unwrap(response) = Ok(render(Last(ran).gave))

\* A1 transformed the handler's response, A2 produced an error and A3
\* recovered it: the response is A3's recovery value
C34_Witness ==
    /\ Done
    /\ Len(factory.after) = 3
    /\ factory.after[1].step.does = "transform"
    /\ factory.after[2].step.does = "generate_error"
    /\ factory.after[3].step.does = "handle_error"
    /\ [i \in 1..Len(log) |-> log[i].stage] = <<"handler", "after", "after", "after">>
    /\ unwrap(response) = Ok(Response_new(<<StepMark(factory.after[3].step.id)>>))

\* what the adapter handed to the user computation of the dispatched call
Received ==
    RunnerInput_try_into(unwrap(built).FnIn, unwrap(built).Extractor,
                         unwrap(request), <<>>).res.val

\* the body as the route's deserializer decodes it
Decoded ==
    IF unwrap(built).Extractor = "String" THEN unwrap(request).val.body
    ELSE NumberOf(unwrap(request).val.body)

\* C35: a user computation whose input type is a Result is invoked by every
\* dispatch, whatever reaches it: it is handed the upstream error when the
\* input carries one, the 422 of the deserializer when the body cannot be
\* decoded, and the decoded value otherwise.
C35_ResultAwareAlwaysInvoked ==
    (Dispatched /\ unwrap(built).FnIn.result) =>
        /\ Ran("user")
        /\ log[IF unwrap(request).ok THEN 2 ELSE 1] = "user"
        /\ IF ~unwrap(request).ok THEN Received = unwrap(request)
           ELSE IF Undecodable
           THEN /\ ~Received.ok
                /\ Received.err.code = 422
                /\ Received.err.body = CodecMessage(unwrap(request).val.body)
           ELSE /\ Received.ok
                /\ Received.val = IF unwrap(built).FnIn.of = "Body" THEN Decoded
                                  ELSE [unwrap(request).val EXCEPT !.body = Decoded]

\* a user computation taking Result<Json> ran after the deserializer refused
\* "x", and another ran on an upstream error with nothing before it
C35_Witness ==
    /\ Dispatched /\ unwrap(built).FnIn.result
    /\ \/ Undecodable /\ unwrap(request).val.body = <<"x">>
          /\ log[1] = "deserializer" /\ log[2] = "user"
       \/ ~unwrap(request).ok /\ unwrap(request).err.code = 1000 /\ log[1] = "user"

-----------------------------------------------------------------------------
(* The order of the checks on a connection *)

\* the tokens of the request line of the connection served
Tokens == split_on(unwrap(request)[1], " ")

\* the checks in their order, each read only when those before it passed
NoRequestLine == unwrap(request) = <<>>
BadMethod == \A m \in Methods : Tokens[1] # MethodToken[m]
BadUri == Len(Tokens) < 2 \/ Tokens[2] = <<>>
BadVersion == Len(Tokens) < 3 \/ Tokens[3] # HTTP_1_1
NoRoute ==
    is_none(find_handler(server,
                         CHOOSE m \in Methods : Tokens[1] = MethodToken[m], Tokens[2]))
BadHeader ==
    \E i \in 2..Len(unwrap(request)) :
        /\ \A j \in 2..i : unwrap(request)[j] # <<>>
        /\ \/ \A k \in 1..Len(unwrap(request)[i]) : unwrap(request)[i][k] # ":"
           \/ unwrap(request)[i][1] = ":"

\* what the first failing check ends the connection with, None when all pass
FirstFailing ==
    IF NoRequestLine THEN Some(BAD_REQUEST)
    ELSE IF BadMethod THEN Some(BAD_REQUEST)
    ELSE IF BadUri THEN Some(BAD_REQUEST)
    ELSE IF BadVersion THEN Some(HTTP_VERSION_NOT_SUPPORTED)
    ELSE IF NoRoute THEN Some(NOT_FOUND)
    ELSE IF BadHeader THEN Some(BAD_REQUEST)
    ELSE None

\* C36: a connection is checked in the order request line, method, URI,
\* version, route lookup, header lines; the first failing check alone gives the
\* outcome and no handler is invoked. So another version than HTTP/1.1 for a
\* path with no route ends in 505, not 404, and a malformed header for a path
\* with no route ends in 404, not 400.
C36_ChecksInOrder ==
    Connected =>
        /\ IF is_some(FirstFailing)
           THEN /\ unwrap(response).kind = "error"
                /\ unwrap(response).text = unwrap(FirstFailing)
                /\ log = <<>>
           ELSE /\ unwrap(response).kind = "written"
                /\ log # <<>>
        /\ \A m \in {"GET", "PUT"}, t \in {Canon(<<A>>), Canon(<<B>>)} :
            (~NoRequestLine /\ ~RegisteredFor(m, t)) =>
                /\ unwrap(request)[1] = Line(<<MethodToken[m], t,
                                               <<"H", "T", "T", "P", "/", "1", ".", "0">>>>)
                        => unwrap(response).text = HTTP_VERSION_NOT_SUPPORTED
                /\ (/\ unwrap(request)[1] = Line(<<MethodToken[m], t, HTTP_1_1>>)
                    /\ Tail(unwrap(request)) = << <<":", "W", "r", "o", "n", "g">> >>)
                        => unwrap(response).text = NOT_FOUND

\* "GET /a HTTP/1.0" was served by a server with no route for GET /a: 505
C36_Witness ==
    /\ Connected
    /\ ~RegisteredFor("GET", Canon(<<A>>))
    /\ unwrap(request) = <<Line(<<MethodToken.GET, Canon(<<A>>),
                                  <<"H", "T", "T", "P", "/", "1", ".", "0">>>>)>>
    /\ unwrap(response).kind = "error"
    /\ unwrap(response).text = HTTP_VERSION_NOT_SUPPORTED

\* "GET /b HTTP/1.1" followed by ":Wrong" was served with no route for it: 404
C36_MalformedHeaderUnrouted ==
    /\ Connected
    /\ ~RegisteredFor("GET", Canon(<<B>>))
    /\ unwrap(request) = <<Line(<<MethodToken.GET, Canon(<<B>>), HTTP_1_1>>),
                           <<":", "W", "r", "o", "n", "g">>>>
    /\ unwrap(response).text = NOT_FOUND

-----------------------------------------------------------------------------
(* Steps appended after a route *)

Invokes(id) == \E i \in 1..Len(log) : log[i].id = id

\* C37: a route is wrapped with the steps its router had when the route was
\* registered: of the steps of that router, a request to the route invokes
\* those appended before the registration and none appended after it.
C37_StepsAsAtRegistration ==
    (~panicked /\ is_some(request)) =>
        \A w \in Owners : \A reg \in Aimed(w) :
            (w = "child" => is_some(merged)) =>
                \A stage \in {"pre", "after"}, k \in 1..MaxChain :
                    Invokes(StepId(w, stage, k)) <=> k <= reg.steps[stage]

\* the parent registered GET /a, appended a pre- and an after-step, registered
\* GET /b, and a request to /a has run the handler alone
C37_Witness ==
    /\ ~panicked /\ is_some(request) /\ is_none(merged)
    /\ Captured("parent") = [pre |-> 1, after |-> 1]
    /\ \E early, late \in registry :
        /\ early.owner = "parent" /\ early.steps = [pre |-> 0, after |-> 0]
        /\ late.owner = "parent" /\ late.steps = [pre |-> 1, after |-> 1]
        /\ early \in Aimed("parent")
    /\ LogIds = <<FnName("parent", unwrap(request).method, unwrap(request).path)>>

\* in the same router a request to /b, registered after the steps, has run them
C37_LaterRouteWrapped ==
    /\ ~panicked /\ is_some(request) /\ is_none(merged)
    /\ \E early, late \in registry :
        /\ early.owner = "parent" /\ early.steps = [pre |-> 0, after |-> 0]
        /\ late.owner = "parent" /\ late.steps = [pre |-> 1, after |-> 1]
        /\ late \in Aimed("parent")
    /\ Len(log) = 3

-----------------------------------------------------------------------------
(* A failing child route under a parent's after-step *)

\* the child is composed of steps and a handler that may fail, the parent of
\* one after-step; the parent takes the child in and is asked for its route
ChildNext ==
    \/ \E d \in PlainDoes : RouterPre("child", d)
    \/ \E d \in PlainDoes : RouterAfter("child", d)
    \/ \E d \in FnDoes : RouterRoute("child", "GET", Canon(<<B>>), d)
    \/ RouterAfter("parent", "transform")
    \/ RouterMerge
    \/ \E b \in Bodies : RouterRequest("GET", Canon(<<B>>), b)

SpecChild == RouterInit /\ [][ChildNext]_vars

\* a step or the handler of the child ended the request with an error
ChildFailed == \E i \in 1..Len(log) : log[i].id.owner = "child" /\ ~log[i].gave.ok
ParentAfter == {i \in 1..Len(log) : log[i].id.owner = "parent" /\ log[i].stage = "after"}

\* C38: on a route merged from a child, an error of the child's pre-step, of
\* the handler or of the child's after-step reaches the parent's after-steps
\* as an error: a parent after-step that handles successes only is not invoked
\* and none is handed a success.
C38_ChildErrorReachesParentAsError ==
    (Served /\ Aimed("child") # {} /\ ChildFailed) =>
        \A i \in ParentAfter : ~log[i].got.ok /\ log[i].how # "after"

\* what the parent's after-step is handed instead: the child's error rendered
\* as a response, as a success
C38_ChildErrorRendered ==
    (Served /\ Aimed("child") # {} /\ ChildFailed) =>
        \A i \in ParentAfter :
            /\ i > 1
            /\ ~log[i - 1].gave.ok
            /\ log[i].got = Ok(error_into_response(log[i - 1].gave.err))

\* the child's handler failed with 400 and the parent's after-step was invoked
C38_Reached ==
    /\ Served /\ Aimed("child") # {} /\ ChildFailed
    /\ Len(log) = 2
    /\ log[1].stage = "handler" /\ log[1].gave = Err(Error_new(<<HandlerMark>>, 400))
    /\ log[2].id = StepId("parent", "after", 1)
    /\ unwrap(response).status = 400

-----------------------------------------------------------------------------
(* A handler behind a factory with no step, and the handler alone *)

\* mutant: the failure of the runner is answered with a 500 of its body
build_call_as_500(self, runner, req) ==
    LET runner_resp == Runner_call_runner(runner, Ok(req))
    IN  IF ~runner_resp.res.ok THEN [status |-> 500, body |-> runner_resp.res.err.body]
        ELSE runner_resp.res.val

\* the closure build returns, around a runner of any input, output and codecs
build_call(self, runner, req) ==
    LET req_updated == call_pre(self.pre, req, <<>>) IN
    IF ~req_updated.res.ok THEN render(req_updated.res)
    ELSE LET runner_resp == Runner_call_runner(runner, Ok(req_updated.res.val)) IN
         IF ~runner_resp.res.ok THEN render(runner_resp.res)
         ELSE render(call_after(self.after, runner_resp.res.val, <<>>).res)

\* handler::call_runner around a runner: what a route answers with
handler_call(runner, req) == render(Runner_call_runner(runner, Ok(req)).res)

BareRunners ==
    {r \in Runners : r.code \in {0 - 1, 404, 1000}}
    \cup {[r EXCEPT !.code = 0 - 2] : r \in {q \in Runners : q.code = 0 - 1 /\ q.Serializer = "Json"}}
BareRequests == {Request_new(b) : b \in {<<>>, <<"4", "2">>, <<"4", "x">>}}

\* the same request is answered by the handler registered on a server, and by
\* the route a router with no step made of it
BareCall(req) ==
    /\ is_some(built)
    /\ is_none(request)
    /\ request' = Some(Ok(req))
    /\ response' = Some([bare |-> handler_call(unwrap(built), req),
                         routed |-> build_call(new, unwrap(built), req)])
    /\ log' = Runner_call_runner(unwrap(built), Ok(req)).ran
    /\ UNCHANGED <<factory, built>>
    /\ UNCHANGED trieVars
    /\ UNCHANGED routerVars
    /\ UNCHANGED serverVars

BareNext ==
    \/ \E runner \in BareRunners : DispatchBuild(runner)
    \/ \E req \in BareRequests : BareCall(req)

SpecBare == MwInit /\ [][BareNext]_vars

\* C39: a route made by a factory with no step answers every request as the
\* handler alone does, status and body, also when the deserializer, the user
\* computation or the serializer fails.
C39_NoStepsSameAsBare ==
    Dispatched => unwrap(response).routed = unwrap(response).bare

\* the serializer refused the value the user computation returned: 422 from both
C39_Witness ==
    /\ Dispatched
    /\ unwrap(built).code = 0 - 2
    /\ log = <<"deserializer", "user", "serializer">>
    /\ unwrap(response).routed = [status |-> 422, body |-> KeyMessage]
    /\ unwrap(response).bare = [status |-> 422, body |-> KeyMessage]

\* the deserializer refused the body: 422 from both, the user computation not run
C39_DeserializerFailed ==
    /\ Dispatched /\ Undecodable /\ ~unwrap(built).FnIn.result
    /\ log = <<"deserializer">>
    /\ unwrap(response).routed.status = 422
    /\ unwrap(response).bare.status = 422

\* the user computation failed with 1000: a 500 of the builder from both
C39_ComputationFailed ==
    /\ Dispatched
    /\ unwrap(built).code = 1000
    /\ Ran("user")
    /\ unwrap(response).routed = [status |-> 500, body |-> <<StatusMark>>]
    /\ unwrap(response).bare = [status |-> 500, body |-> <<StatusMark>>]

====
